---- MODULE Spec2Model ----
(***************************************************************************)
(* Chatbot.chat of src/src/utils/chatbot_agentic_v3.py: the loop that      *)
(* alternates LLM completions and tool dispatches within one turn, the     *)
(* keyword chaining check, the function-call budget, the fallback          *)
(* completion and the persistence of the turn.                             *)
(*                                                                         *)
(* Strings that the code inspects (the user message, the keyword lists)    *)
(* are sequences of one-character strings, so that `in` is a real          *)
(* substring test and .lower() a real conversion.  Texts that the code     *)
(* only stores and passes on (LLM answers, tool details) are atoms.        *)
(***************************************************************************)
EXTENDS Integers, Sequences, FiniteSets, TLC

\* ---------------------------------------------------------------- bounds

\* Number of chat() calls made on one Chatbot instance.
MaxTurns == 1

\* cfg.max_function_calls is drawn from 0..MaxConfiguredCalls.
MaxConfiguredCalls == 2

\* ------------------------------------------------------ program constants

\* MAX_HISTORY_PAIRS default.
max_history_pairs == 2

\* ----------------------------------------------------------------- strings

ContentAdditionKeywords ==
    { <<"a","d","d"," ","c","o","n","t","e","n","t">>,
      <<"a","d","d"," ","t","o">>,
      <<"c","r","e","a","t","e"," ","c","o","n","t","e","n","t">>,
      <<"a","d","d"," ","p","a","r","a","g","r","a","p","h">>,
      <<"a","d","d"," ","h","e","a","d","i","n","g">>,
      <<"a","d","d"," ","b","u","l","l","e","t">>,
      <<"a","d","d"," ","t","o","d","o">>,
      <<"a","d","d"," ","a","w","s">>,
      <<"a","d","d"," ","s","t","r","u","c","t","u","r","e","d">>,
      <<"c","r","e","a","t","e"," ","s","e","c","t","i","o","n","s">>,
      <<"m","u","l","t","i","p","l","e">>,
      <<"s","e","v","e","r","a","l">>,
      <<"t","a","s","k","s">>,
      <<"i","t","e","m","s">>,
      <<"t","o","d","o"," ","l","i","s","t">> }

ReadAndAddKeywords ==
    { <<"r","e","a","d"," ","c","o","n","t","e","n","t">>,
      <<"r","e","a","d"," ","p","a","g","e">>,
      <<"r","e","a","d"," ","a","n","d"," ","a","d","d">>,
      <<"s","a","m","e"," ","t","y","p","e">>,
      <<"s","i","m","i","l","a","r"," ","c","o","n","t","e","n","t">>,
      <<"c","o","p","y"," ","c","o","n","t","e","n","t">> }

PageUpdateKeywords ==
    { <<"a","d","d"," ","t","o">>,
      <<"u","p","d","a","t","e">>,
      <<"m","o","d","i","f","y">>,
      <<"a","p","p","e","n","d">> }

NewPageContentKeywords ==
    { <<"a","d","d"," ","c","o","n","t","e","n","t">>,
      <<"w","i","t","h"," ","s","e","c","t","i","o","n","s">>,
      <<"w","i","t","h"," ","b","u","l","l","e","t">>,
      <<"w","i","t","h"," ","t","o","d","o">> }

MultiStepPatterns ==
    { <<"r","e","a","d"," ","c","o","n","t","e","n","t"," ","f","r","o","m">>,
      <<"r","e","a","d"," ","p","a","g","e">>,
      <<"r","e","a","d"," ","a","n","d"," ","a","d","d">>,
      <<"s","a","m","e"," ","t","y","p","e"," ","o","f"," ","c","o","n","t","e","n","t">>,
      <<"s","i","m","i","l","a","r"," ","c","o","n","t","e","n","t">>,
      <<"c","o","p","y"," ","f","r","o","m">> }

MsgFindUpdate == <<"F","i","n","d"," ","X"," ","t","h","e","n"," ","u","p","d","a","t","e"," ","X">>

MsgFindAddTo == <<"F","i","n","d"," ","X"," ","t","h","e","n"," ","a","d","d"," ","t","o"," ","X">>

MsgReadTodo == <<"R","e","a","d"," ","p","a","g","e"," ","X"," ","w","i","t","h"," ","t","o","d","o">>

ToLower ==
    ("A" :> "a") @@ ("B" :> "b") @@ ("C" :> "c") @@ ("D" :> "d") @@ ("E" :> "e") @@ ("F" :> "f") @@ ("G" :> "g") @@ ("H" :> "h") @@ ("I" :> "i") @@ ("J" :> "j") @@ ("K" :> "k") @@ ("L" :> "l") @@ ("M" :> "m") @@ ("N" :> "n") @@ ("O" :> "o") @@ ("P" :> "p") @@ ("Q" :> "q") @@ ("R" :> "r") @@ ("S" :> "s") @@ ("T" :> "t") @@ ("U" :> "u") @@ ("V" :> "v") @@ ("W" :> "w") @@ ("X" :> "x") @@ ("Y" :> "y") @@ ("Z" :> "z")


\* str.lower(): upper-case ASCII letters are mapped, everything else kept.
Lower(s) ==
    [i \in 1..Len(s) |-> IF s[i] \in DOMAIN ToLower THEN ToLower[s[i]] ELSE s[i]]

\* Python's `k in s` on strings.
IsSubstring(k, s) ==
    \E i \in 0..(Len(s) - Len(k)) : SubSeq(s, i + 1, i + Len(k)) = k

\* any(keyword in user_message.lower() for keyword in keywords)
AnyKeywordIn(keywords, user_message) ==
    LET lowered == Lower(user_message)
    IN  \E k \in keywords : IsSubstring(k, lowered)

\* The messages a caller passes to chat().  MsgFindUpdate matches a keyword
\* list only after notion_read_page, MsgFindAddTo after notion_search_content
\* and notion_read_page, MsgReadTodo after every successful tool.
UserMessages == { MsgFindUpdate, MsgFindAddTo, MsgReadTodo }

\* ------------------------------------------------------------------- tools

NoneVal == "None"

\* A local of chat() that no assignment has bound yet.
Unbound == "unbound"

Success == "Function call successful."

Failed == "Function call failed."

\* The names execute_function_call dispatches on.
RegisteredTools ==
    { "search_vector_db", "add_user_info_to_database",
      "notion_search_content", "notion_read_page", "notion_create_page",
      "notion_list_pages", "notion_list_databases",
      "notion_add_structured_content", "notion_add_smart_content",
      "notion_workspace_analytics", "notion_content_analytics",
      "notion_activity_analytics",
      "notion_add_paragraph", "notion_add_heading", "notion_add_bullet_point",
      "notion_add_todo", "notion_add_multiple_todos",
      "notion_bulk_create_pages", "notion_bulk_list_pages",
      "notion_bulk_analyze_pages" }

\* The names the LLM asks for: registered ones and one that is not registered.
RequestedTools ==
    { "notion_search_content", "notion_read_page", "notion_create_page",
      "notion_add_paragraph", "add_user_info_to_database", "notion_delete_page" }

\* function_call.arguments as the LLM writes it: a JSON object whose keys are
\* the tool's parameters, a JSON object with other keys, JSON that is not an
\* object, and text that is not JSON.
ArgumentStrings == { "{matching}", "{mismatching}", "[list]", "{not json" }

\* json.loads(arguments): raises on text that is not JSON, else the value.
JsonLoads(arguments) ==
    IF arguments = "{not json" THEN [raised |-> TRUE, value |-> Unbound]
    ELSE IF arguments = "{matching}" THEN [raised |-> FALSE, value |-> "dict_matching"]
    ELSE IF arguments = "{mismatching}" THEN [raised |-> FALSE, value |-> "dict_mismatching"]
    ELSE [raised |-> FALSE, value |-> "list"]

\* Whether the parsed arguments have .items() and can be passed with **.
IsDict(function_args) == function_args \in { "dict_matching", "dict_mismatching" }

\* What the tool's own method does when it is called: it returns a
\* (state, result) pair or it raises.
ExecutorOutcomes ==
    { [raised |-> FALSE, state |-> Success, detail |-> "found"],
      [raised |-> FALSE, state |-> Failed, detail |-> "not found"],
      [raised |-> TRUE, state |-> NoneVal, detail |-> "api error"] }

NoResult == [detail |-> "", hint |-> FALSE]

\* execute_function_call without its else branch: a name the chain does not
\* know is handed to an executor like any other.
ExecuteFunctionCall_NoUnknownBranch(function_name, function_args, executor, term_has_keyword) ==
    LET caught == [state |-> Failed,
                   result |-> [detail |-> "Error executing", hint |-> FALSE]]
        ran == IF executor.raised THEN caught
               ELSE [state |-> executor.state,
                     result |-> [detail |-> executor.detail, hint |-> FALSE]]
    IN  IF function_name = "add_user_info_to_database" THEN ran
        ELSE IF function_args # "dict_matching" THEN caught
        ELSE ran

\* execute_function_call: the if-chain on the name inside try/except.
\* term_has_keyword: the search_term contains "education", "notes", "project"
\* or "page".
ExecuteFunctionCall(function_name, function_args, executor, term_has_keyword) ==
    LET caught == [state |-> Failed,
                   result |-> [detail |-> "Error executing", hint |-> FALSE]]
        ran == IF executor.raised THEN caught
               ELSE [state |-> executor.state,
                     result |-> [detail |-> executor.detail, hint |-> FALSE]]
    IN  IF function_name = "add_user_info_to_database" THEN ran
        ELSE IF function_name \in RegisteredTools THEN
            IF function_args # "dict_matching" THEN caught
            ELSE IF /\ function_name = "notion_search_content"
                    /\ ran.state = Success
                    /\ term_has_keyword
                 THEN [ran EXCEPT !.result.hint = TRUE]
            ELSE ran
        ELSE [state |-> Failed,
              result |-> [detail |-> "Unknown function", hint |-> FALSE]]

\* ---------------------------------------------------------------- chaining

\* The chaining check without the assignment of "finished" in its else branch.
ChainingDecision_NeverFinishes(function_name, user_message) ==
    IF /\ function_name = "notion_search_content"
       /\ AnyKeywordIn(ContentAdditionKeywords, user_message)
    THEN [chat_state |-> "thinking", is_chaining_task |-> TRUE,
          chaining_guidance |-> "CONTENT ADDITION TASK DETECTED"]
    ELSE IF /\ function_name = "notion_search_content"
            /\ AnyKeywordIn(ReadAndAddKeywords, user_message)
    THEN [chat_state |-> "thinking", is_chaining_task |-> TRUE,
          chaining_guidance |-> "READ-AND-ADD TASK DETECTED"]
    ELSE IF /\ function_name = "notion_read_page"
            /\ AnyKeywordIn(PageUpdateKeywords, user_message)
    THEN [chat_state |-> "thinking", is_chaining_task |-> TRUE,
          chaining_guidance |-> "PAGE UPDATE TASK DETECTED"]
    ELSE IF /\ function_name = "notion_create_page"
            /\ AnyKeywordIn(NewPageContentKeywords, user_message)
    THEN [chat_state |-> "thinking", is_chaining_task |-> TRUE,
          chaining_guidance |-> "NEW PAGE CONTENT TASK DETECTED"]
    ELSE IF AnyKeywordIn(MultiStepPatterns, user_message)
    THEN [chat_state |-> "thinking", is_chaining_task |-> TRUE,
          chaining_guidance |-> "MULTI-STEP OPERATION DETECTED"]
    ELSE [chat_state |-> "thinking", is_chaining_task |-> FALSE,
          chaining_guidance |-> ""]

\* The chaining check with its multi-step branch written as the else branch.
ChainingDecision_ElseChains(function_name, user_message) ==
    IF /\ function_name = "notion_search_content"
       /\ AnyKeywordIn(ContentAdditionKeywords, user_message)
    THEN [chat_state |-> "thinking", is_chaining_task |-> TRUE,
          chaining_guidance |-> "CONTENT ADDITION TASK DETECTED"]
    ELSE IF /\ function_name = "notion_search_content"
            /\ AnyKeywordIn(ReadAndAddKeywords, user_message)
    THEN [chat_state |-> "thinking", is_chaining_task |-> TRUE,
          chaining_guidance |-> "READ-AND-ADD TASK DETECTED"]
    ELSE IF /\ function_name = "notion_read_page"
            /\ AnyKeywordIn(PageUpdateKeywords, user_message)
    THEN [chat_state |-> "thinking", is_chaining_task |-> TRUE,
          chaining_guidance |-> "PAGE UPDATE TASK DETECTED"]
    ELSE IF /\ function_name = "notion_create_page"
            /\ AnyKeywordIn(NewPageContentKeywords, user_message)
    THEN [chat_state |-> "thinking", is_chaining_task |-> TRUE,
          chaining_guidance |-> "NEW PAGE CONTENT TASK DETECTED"]
    ELSE [chat_state |-> "thinking", is_chaining_task |-> TRUE,
          chaining_guidance |-> "MULTI-STEP OPERATION DETECTED"]

\* The chaining check that chat() makes after a successful function call:
\* the chat_state it assigns, is_chaining_task and the guidance text.
ChainingDecision(function_name, user_message) ==
    IF /\ function_name = "notion_search_content"
       /\ AnyKeywordIn(ContentAdditionKeywords, user_message)
    THEN [chat_state |-> "thinking", is_chaining_task |-> TRUE,
          chaining_guidance |-> "CONTENT ADDITION TASK DETECTED"]
    ELSE IF /\ function_name = "notion_search_content"
            /\ AnyKeywordIn(ReadAndAddKeywords, user_message)
    THEN [chat_state |-> "thinking", is_chaining_task |-> TRUE,
          chaining_guidance |-> "READ-AND-ADD TASK DETECTED"]
    ELSE IF /\ function_name = "notion_read_page"
            /\ AnyKeywordIn(PageUpdateKeywords, user_message)
    THEN [chat_state |-> "thinking", is_chaining_task |-> TRUE,
          chaining_guidance |-> "PAGE UPDATE TASK DETECTED"]
    ELSE IF /\ function_name = "notion_create_page"
            /\ AnyKeywordIn(NewPageContentKeywords, user_message)
    THEN [chat_state |-> "thinking", is_chaining_task |-> TRUE,
          chaining_guidance |-> "NEW PAGE CONTENT TASK DETECTED"]
    ELSE IF AnyKeywordIn(MultiStepPatterns, user_message)
    THEN [chat_state |-> "thinking", is_chaining_task |-> TRUE,
          chaining_guidance |-> "MULTI-STEP OPERATION DETECTED"]
    ELSE [chat_state |-> "finished", is_chaining_task |-> FALSE,
          chaining_guidance |-> ""]

\* ------------------------------------------------------------------ context

\* function_call_result_section = "" at the start of the turn.
EmptySection ==
    [kind |-> "empty", name |-> "", args |-> "", outcome |-> "",
     result |-> NoResult, guidance |-> ""]

\* "## Function Call Executed ..." with the name, the arguments, the outcome,
\* the result and the chaining guidance.
ExecutedSection(function_name, function_args, function_call_state, function_call_result, chaining_guidance) ==
    [kind |-> "executed", name |-> function_name, args |-> function_args,
     outcome |-> function_call_state, result |-> function_call_result,
     guidance |-> chaining_guidance]

\* "## Function Call Attempted ..." with the name, the arguments and the
\* failed outcome with its result.
AttemptedSection(function_name, function_args, function_call_state, function_call_result) ==
    [kind |-> "attempted", name |-> function_name, args |-> function_args,
     outcome |-> function_call_state, result |-> function_call_result,
     guidance |-> ""]

\* "# Function Call Limit Reached. ... Please conclude the conversation ..."
LimitSection ==
    [kind |-> "limit", name |-> "", args |-> "", outcome |-> "",
     result |-> NoResult, guidance |-> ""]

\* The limit test reached one call early.
LimitReached_OneEarly(count, max_function_calls) == count + 1 >= max_function_calls

\* if function_call_count >= self.cfg.max_function_calls: (before the LLM call)
LimitReached(count, max_function_calls) == count >= max_function_calls

\* The section as it stands when the system prompt is built: the rendering of
\* the last call, assigned over by the limit text when the limit is reached.
SectionForPrompt(current, function_call_state, function_name, function_args, function_call_result, user_message, count, max_function_calls) ==
    LET rendered ==
            IF function_call_state = Success
            THEN ExecutedSection(function_name, function_args, function_call_state,
                   function_call_result,
                   ChainingDecision(function_name, user_message).chaining_guidance)
            ELSE IF function_call_state = Failed
            THEN AttemptedSection(function_name, function_args,
                                  function_call_state, function_call_result)
            ELSE current
    IN  IF LimitReached(count, max_function_calls) THEN LimitSection ELSE rendered

\* The clock of the process, which the assembler does not read.
VARIABLE clock

\* The prompt with the time of the call put into it.
prepare_system_prompt_for_agentic_chatbot_v4_StampsTime(info, chat_summary, history, section) ==
    [user_info |-> info, chat_summary |-> chat_summary,
     chat_history |-> history, function_call_result_section |-> section,
     generated_at |-> clock]

\* prompt.format(...): the four values placed in the template.
prepare_system_prompt_for_agentic_chatbot_v4(info, chat_summary, history, section) ==
    [user_info |-> info, chat_summary |-> chat_summary,
     chat_history |-> history, function_call_result_section |-> section]

NoPrompt == [user_info |-> "", chat_summary |-> {}, chat_history |-> <<>>,
             function_call_result_section |-> EmptySection]

\* The limit test written with > for >=.
FallbackNeeded_OffByOne(count, max_function_calls, state) ==
    count > max_function_calls \/ state = "finished"

\* The test of line 317 without its count: only a finished turn falls back.
FallbackNeeded_IgnoresCount(count, max_function_calls, state) ==
    state = "finished"

\* The test of line 317 without its chat_state: only the count falls back.
FallbackNeeded_IgnoresState(count, max_function_calls, state) ==
    count >= max_function_calls

\* if function_call_count >= self.cfg.max_function_calls or chat_state == "finished":
FallbackNeeded(count, max_function_calls, state) ==
    count >= max_function_calls \/ state = "finished"

\* ------------------------------------------------------------ collaborators

\* f"user: {user_message}, assistant: {assistant_response}"
MsgPair(user_text, assistant_text) == [user |-> user_text, assistant |-> assistant_text]

Range(s) == { s[i] : i \in 1..Len(s) }

\* ChatHistoryManager.add_to_history: the pair is appended; a history longer
\* than max_pairs folds its oldest pair into the summary and drops it.
AddToHistory(history, chat_summary, user_text, assistant_text, max_pairs) ==
    LET h == Append(history, MsgPair(user_text, assistant_text))
    IN  IF Len(h) > max_pairs
        THEN [history |-> Tail(h), summary |-> chat_summary \cup { Head(h) }]
        ELSE [history |-> h, summary |-> chat_summary]

\* ChatHistoryManager.update_chat_summary: the summarization check; over the
\* token budget the summary is regenerated and then covers the history too.
UpdateChatSummary(history, chat_summary, over_budget) ==
    IF over_budget THEN chat_summary \cup Range(history) ELSE chat_summary

\* VectorDBManager.update_vector_db: the pair is added to the index.
UpdateVectorDb(index, msg_pair) == index \cup { msg_pair }

\* -------------------------------------------------------------------- state

\* What chat_completions.create returns in choices[0].message.
Texts == { "answer one", "answer two" }

FunctionCalls == [name : RequestedTools, arguments : ArgumentStrings]

\* message.function_call when the completion asks for no function.
NoFunctionCall == [name |-> NoneVal, arguments |-> NoneVal]

\* The kinds of message the code tells apart: `if content` is tested first,
\* `elif function_call` second.
ContentResponses ==
    [content : Texts,
     function_call : { NoFunctionCall,
                       [name |-> "notion_search_content", arguments |-> "{matching}"] }]

FunctionCallResponses == [content : { NoneVal }, function_call : FunctionCalls]

NoReturn == [kind |-> "none", text |-> NoneVal]

NoEffects == [appended |-> 0, summary_checks |-> 0, index_updates |-> 0]

VARIABLES
    max_function_calls,            \* self.cfg.max_function_calls
    user_info,                     \* self.user_manager.user_info
    chat_history,                  \* self.chat_history_manager.chat_history
    summary,                       \* the summary the chat history manager stores
    vector_db,                     \* the documents of the vector index
    pc,                            \* "idle", "llm", "returned"
    user_message,
    previous_summary,              \* self.previous_summary
    function_call_result_section,
    function_call_state,
    chat_state,
    function_call_count,
    function_name,
    function_args,
    function_call_result,
    system_prompt,
    assistant_response,
    result,                        \* what chat() returned: kind and text
    turns,                         \* chat() calls started so far
    llm_calls,                     \* tool-enabled completions of this turn
    fallback_calls,                \* tool-disabled completions of this turn
    dispatches,                    \* execute_function_call calls of this turn
    llm_response,                  \* kind of the last tool-enabled completion
    fallback_text,                 \* the text the fallback completion returned
    effects,                       \* persistence calls completed in this turn
    error_cause,                   \* the call whose exception ended the turn
    history0, summary0, vector_db0, \* session memory when the turn started
    tool_name,                     \* call_tool_sync's tool_name
    tool_arguments,                \* call_tool_sync's arguments
    request_data,                  \* the JSON-RPC request posted to the server
    http_response,                 \* the HTTP response on its way to the client
    tool_outcome,                  \* how the server's tool method ended
    tool_result,                   \* what call_tool_sync returned
    sys_stdout,                    \* sys.stdout of the process
    old_stdout,                    \* old_stdout of each running tool call
    captured_output,               \* what each call's StringIO holds
    capture_pc,                    \* where each session's tool call stands
    printed,                       \* lines each call's operation has printed
    capture_tool,                  \* the tool each session called
    capture_result,                \* what each session's tool call returned
    assemble_log,                  \* the calls of the context assembler so far
    messages,                      \* state["messages"] of the LangGraph chatbot
    error_message,                 \* state["error_message"]
    http_clients,                  \* the keys of MCPClientManager.http_clients
    sessions,                      \* the keys of MCPClientManager.sessions
    init_returned,                 \* what initialize_notion_with_fallback returned
    init_trace,                    \* the transports it tried, with their results
    split_content,                 \* the content handed to a splitter
    split_max_length,              \* the limit it is split at
    split_chunks,                  \* what split_long_content returned
    tool_blocks                    \* the block texts the notion_add_* tools made

session_vars == <<max_function_calls, user_info, chat_history, summary, vector_db, turns>>

turn_vars == <<pc, user_message, previous_summary, function_call_result_section,
               function_call_state, chat_state, function_call_count, function_name,
               function_args, function_call_result, system_prompt,
               assistant_response, result>>

ghost_vars == <<llm_calls, fallback_calls, dispatches, llm_response, fallback_text,
                effects, error_cause, history0, summary0, vector_db0>>

mcp_vars == <<tool_name, tool_arguments, request_data, http_response, tool_outcome,
              tool_result>>

capture_vars == <<sys_stdout, old_stdout, captured_output, capture_pc, printed,
                  capture_tool, capture_result>>

\* The variables outside chat() and call_tool_sync.
\* The state keys of the LangGraph chatbot that chat() of Chatbot has no
\* local for.
graph_vars == <<messages, error_message>>

\* The registry of an MCPClientManager and its initialization.
manager_vars == <<http_clients, sessions, init_returned, init_trace>>

\* The input and the output of the long-content splitters.
split_vars == <<split_content, split_max_length, split_chunks, tool_blocks>>

ext_vars == <<capture_vars, clock, assemble_log, graph_vars, manager_vars, split_vars>>

vars == <<session_vars, turn_vars, ghost_vars, mcp_vars, ext_vars>>

\* The Chatbot instances of the process, each used by a thread of its own.
Sessions == { "session_a", "session_b" }

\* A tool call that has not returned.
NoCaptureResult == [state |-> NoneVal, text |-> <<>>]

\* No stdout-capturing tool has been called: sys.stdout is the console.
NoCapture ==
    /\ sys_stdout = "console"
    /\ old_stdout = [s \in Sessions |-> NoneVal]
    /\ captured_output = [s \in Sessions |-> <<>>]
    /\ capture_pc = [s \in Sessions |-> "ready"]
    /\ printed = [s \in Sessions |-> 0]
    /\ capture_tool = [s \in Sessions |-> NoneVal]
    /\ capture_result = [s \in Sessions |-> NoCaptureResult]

\* Nothing outside chat() and call_tool_sync has run.
NoExt ==
    /\ NoCapture
    /\ clock = 0
    /\ assemble_log = {}
    /\ messages = <<>>
    /\ error_message = NoneVal
    /\ http_clients = {}
    /\ sessions = {}
    /\ init_returned = NoneVal
    /\ init_trace = <<>>

\* The tools that split long content into several blocks.
SplitterTools == {"notion_add_paragraph", "notion_add_bullet_point",
                  "notion_add_todo", "notion_add_multiple_todos"}

\* No tool has made a block.
NoBlocks == [tool \in SplitterTools |-> <<>>]

\* No splitter has been called.
NoSplit ==
    /\ split_content = <<>>
    /\ split_max_length = 0
    /\ split_chunks = <<>>
    /\ tool_blocks = NoBlocks

\* No call of call_tool_sync has been made.
NoToolCall ==
    /\ tool_name = NoneVal
    /\ tool_arguments = NoneVal
    /\ request_data = NoneVal
    /\ http_response = NoneVal
    /\ tool_outcome = NoneVal
    /\ tool_result = NoneVal

\* Chatbot.__init__: a new session with an empty history; no turn running.
Init ==
    /\ max_function_calls \in 0..MaxConfiguredCalls
    /\ user_info = "profile"
    /\ chat_history = <<>>
    /\ summary = {}
    /\ vector_db = {}
    /\ pc = "idle"
    /\ user_message = <<>>
    /\ previous_summary = {}
    /\ function_call_result_section = EmptySection
    /\ function_call_state = NoneVal
    /\ chat_state = "thinking"
    /\ function_call_count = 0
    /\ function_name = Unbound
    /\ function_args = Unbound
    /\ function_call_result = NoResult
    /\ system_prompt = NoPrompt
    /\ assistant_response = NoneVal
    /\ result = NoReturn
    /\ turns = 0
    /\ llm_calls = 0
    /\ fallback_calls = 0
    /\ dispatches = 0
    /\ llm_response = NoneVal
    /\ fallback_text = NoneVal
    /\ effects = NoEffects
    /\ error_cause = NoneVal
    /\ history0 = <<>>
    /\ summary0 = {}
    /\ vector_db0 = {}
    /\ NoToolCall
    /\ NoExt
    /\ NoSplit

\* chat() returns: `return assistant_response`, the warning, or the string
\* the except clause builds.  The locals of the call are gone.
Return(kind, text, cause) ==
    /\ pc' = "returned"
    /\ result' = [kind |-> kind, text |-> text]
    /\ error_cause' = cause
    /\ function_call_result_section' = EmptySection
    /\ function_call_state' = NoneVal
    /\ function_name' = Unbound
    /\ function_args' = Unbound
    /\ function_call_result' = NoResult
    /\ system_prompt' = NoPrompt

\* One pass from the while test to the system prompt, with the locals as the
\* code before it left them: the chaining check and the rendering of the last
\* call, the limit text, the prompt.  A chat_state of "finished" ends the loop
\* and chat() returns None.  Rendering reads function_args.items(), which
\* raises on arguments that are not a dict; the except clause then returns
\* the error.
BuildContext(message, summary_read, before, section, call_state, name, args, call_result, count) ==
    IF before = "finished"
    THEN /\ Return("none", NoneVal, NoneVal)
         /\ chat_state' = before
         /\ user_info' = user_info
    ELSE LET decided == IF call_state = Success
                        THEN ChainingDecision(name, message).chat_state
                        ELSE before
             info == IF call_state = Success /\ name = "add_user_info_to_database"
                     THEN "profile refreshed" ELSE user_info
             rendered == SectionForPrompt(section, call_state, name, args,
                             call_result, message, count, max_function_calls)
         IN  /\ chat_state' = decided
             /\ user_info' = info
             /\ IF call_state \in { Success, Failed } /\ ~IsDict(args)
                THEN Return("error", "Error", "render")
                ELSE /\ pc' = "llm"
                     /\ function_call_result_section' = rendered
                     /\ system_prompt' = prepare_system_prompt_for_agentic_chatbot_v4(
                            info, summary_read, chat_history, rendered)
                     /\ function_call_state' = call_state
                     /\ function_name' = name
                     /\ function_args' = args
                     /\ function_call_result' = call_result
                     /\ result' = NoReturn
                     /\ error_cause' = NoneVal

\* chat() is entered: the locals are initialised, the summary is read, and
\* the first pass of the loop builds the system prompt.
StartTurn(message) ==
    /\ pc \in { "idle", "returned" }
    /\ turns < MaxTurns
    /\ turns' = turns + 1
    /\ user_message' = message
    /\ function_call_count' = 0
    /\ previous_summary' = summary
    /\ assistant_response' = NoneVal
    /\ llm_calls' = 0
    /\ fallback_calls' = 0
    /\ dispatches' = 0
    /\ llm_response' = NoneVal
    /\ fallback_text' = NoneVal
    /\ effects' = NoEffects
    /\ history0' = chat_history
    /\ summary0' = summary
    /\ vector_db0' = vector_db
    /\ BuildContext(message, summary, "thinking", EmptySection, NoneVal, Unbound,
                    Unbound, NoResult, 0)
    /\ UNCHANGED <<ext_vars, mcp_vars, max_function_calls, chat_history, summary, vector_db>>

\* The except clause storing the error text as the turn's answer before it
\* returns it.
LLMRaises_PersistsError ==
    /\ pc = "llm"
    /\ llm_calls' = llm_calls + 1
    /\ llm_response' = "raised"
    /\ Return("error", "Error", "llm")
    /\ chat_history' = AddToHistory(chat_history, summary, user_message, "Error",
                                    max_history_pairs).history
    /\ summary' = AddToHistory(chat_history, summary, user_message, "Error",
                               max_history_pairs).summary
    /\ UNCHANGED <<ext_vars, mcp_vars, max_function_calls, user_info, vector_db, turns,
                   user_message, previous_summary, chat_state,
                   function_call_count, assistant_response, fallback_calls,
                   dispatches, fallback_text, effects, history0, summary0,
                   vector_db0>>

\* The tool-enabled completion raises: the except clause returns the error.
LLMRaises ==
    /\ pc = "llm"
    /\ llm_calls' = llm_calls + 1
    /\ llm_response' = "raised"
    /\ Return("error", "Error", "llm")
    /\ UNCHANGED <<ext_vars, mcp_vars, session_vars, user_message, previous_summary, chat_state,
                   function_call_count, assistant_response, fallback_calls,
                   dispatches, fallback_text, effects, history0, summary0,
                   vector_db0>>

\* The calls that follow the production of a response, in the order of the
\* code; each of them returns or raises.
PersistSteps == <<"add_to_history", "update_chat_summary", "update_vector_db",
                  "refresh_vector_db_client">>

\* The position of the call that raises, past the end when none does.
FailIndex(steps, fail) ==
    IF \E i \in 1..Len(steps) : steps[i] = fail
    THEN CHOOSE i \in 1..Len(steps) : steps[i] = fail
    ELSE Len(steps) + 1

\* Whether `step` is called and returns, when `fail` is the call that raises.
Completes(steps, step, fail) ==
    /\ \E i \in 1..Len(steps) : steps[i] = step
    /\ FailIndex(steps, step) < FailIndex(steps, fail)

\* The persistence calls with add_to_history given no bound on the history:
\* the pair is appended and nothing is evicted.
Persist_NoHistoryBound(steps, fail, text, over_budget) ==
    LET added == IF Completes(steps, "add_to_history", fail)
                 THEN AddToHistory(chat_history, summary, user_message, text,
                                   Len(chat_history) + 1)
                 ELSE [history |-> chat_history, summary |-> summary]
        summed == IF Completes(steps, "update_chat_summary", fail)
                  THEN UpdateChatSummary(added.history, added.summary, over_budget)
                  ELSE added.summary
        indexed == IF Completes(steps, "update_vector_db", fail)
                   THEN UpdateVectorDb(vector_db, MsgPair(user_message, text))
                   ELSE vector_db
    IN  /\ chat_history' = added.history
        /\ summary' = summed
        /\ vector_db' = indexed
        /\ effects' =
             [appended |-> IF Completes(steps, "add_to_history", fail) THEN 1 ELSE 0,
              summary_checks |-> IF Completes(steps, "update_chat_summary", fail)
                                 THEN 1 ELSE 0,
              index_updates |-> IF Completes(steps, "update_vector_db", fail)
                                THEN 1 ELSE 0]

\* Session memory after the calls of `steps` that complete.
Persist(steps, fail, text, over_budget) ==
    LET added == IF Completes(steps, "add_to_history", fail)
                 THEN AddToHistory(chat_history, summary, user_message, text,
                                   max_history_pairs)
                 ELSE [history |-> chat_history, summary |-> summary]
        summed == IF Completes(steps, "update_chat_summary", fail)
                  THEN UpdateChatSummary(added.history, added.summary, over_budget)
                  ELSE added.summary
        indexed == IF Completes(steps, "update_vector_db", fail)
                   THEN UpdateVectorDb(vector_db, MsgPair(user_message, text))
                   ELSE vector_db
    IN  /\ chat_history' = added.history
        /\ summary' = summed
        /\ vector_db' = indexed
        /\ effects' =
             [appended |-> IF Completes(steps, "add_to_history", fail) THEN 1 ELSE 0,
              summary_checks |-> IF Completes(steps, "update_chat_summary", fail)
                                 THEN 1 ELSE 0,
              index_updates |-> IF Completes(steps, "update_vector_db", fail)
                                THEN 1 ELSE 0]

\* The completion returns content: the pair is appended, the summary checked,
\* the index updated and refreshed, and the content is returned.
LLMContent ==
    /\ pc = "llm"
    /\ llm_calls' = llm_calls + 1
    /\ llm_response' = "content"
    /\ \E content \in { response.content : response \in ContentResponses },
          over_budget \in BOOLEAN, fail \in Range(PersistSteps) \cup { NoneVal } :
        /\ assistant_response' = content
        /\ Persist(PersistSteps, fail, content, over_budget)
        /\ chat_state' = IF Completes(PersistSteps, "update_chat_summary", fail)
                         THEN "finished" ELSE chat_state
        /\ IF fail = NoneVal
           THEN Return("response", content, NoneVal)
           ELSE Return("error", "Error", fail)
    /\ UNCHANGED <<ext_vars, mcp_vars, max_function_calls, user_info, turns, user_message,
                   previous_summary, function_call_count, fallback_calls,
                   dispatches, fallback_text, history0, summary0, vector_db0>>

\* The calls of the fallback branch, in the order of the code.
FallbackSteps == <<"fallback_completion", "add_to_history", "update_vector_db",
                   "refresh_vector_db_client">>

\* The fallback branch with a second attempt when the fallback completion
\* raises.
LLMFunctionCallFallback_Retries ==
    /\ pc = "llm"
    /\ FallbackNeeded(function_call_count, max_function_calls, chat_state)
    /\ FunctionCallResponses # {}
    /\ \E text \in Texts, fail \in Range(FallbackSteps) \cup { NoneVal } :
        /\ llm_calls' = llm_calls + 1
        /\ llm_response' = "function_call"
        /\ fallback_calls' = IF fail = "fallback_completion"
                             THEN fallback_calls + 2 ELSE fallback_calls + 1
        /\ fallback_text' = IF fail = "fallback_completion" THEN NoneVal ELSE text
        /\ assistant_response' = IF fail = "fallback_completion"
                                 THEN assistant_response ELSE text
        /\ Persist(FallbackSteps, fail, text, FALSE)
        /\ IF fail = NoneVal
           THEN Return("response", text, NoneVal)
           ELSE Return("error", "Error", fail)
    /\ UNCHANGED <<ext_vars, mcp_vars, max_function_calls, user_info, turns, user_message,
                   previous_summary, chat_state, function_call_count, dispatches,
                   history0, summary0, vector_db0>>

\* The completion asks for a function when the limit is reached or the turn
\* is marked finished: the completion is repeated without functions, its
\* content is appended, indexed and returned.  The branch does not read the
\* function that was asked for.
LLMFunctionCallFallback ==
    /\ pc = "llm"
    /\ FallbackNeeded(function_call_count, max_function_calls, chat_state)
    /\ FunctionCallResponses # {}
    /\ \E text \in Texts, fail \in Range(FallbackSteps) \cup { NoneVal } :
        /\ llm_calls' = llm_calls + 1
        /\ llm_response' = "function_call"
        /\ fallback_calls' = fallback_calls + 1
        /\ fallback_text' = IF fail = "fallback_completion" THEN NoneVal ELSE text
        /\ assistant_response' = IF fail = "fallback_completion"
                                 THEN assistant_response ELSE text
        /\ Persist(FallbackSteps, fail, text, FALSE)
        /\ IF fail = NoneVal
           THEN Return("response", text, NoneVal)
           ELSE Return("error", "Error", fail)
    /\ UNCHANGED <<ext_vars, mcp_vars, max_function_calls, user_info, turns, user_message,
                   previous_summary, chat_state, function_call_count, dispatches,
                   history0, summary0, vector_db0>>

\* The (state, result) pairs execute_function_call can return for a call.
Outcomes(name, args) ==
    { ExecuteFunctionCall(name, args, executor, term_has_keyword) :
        executor \in ExecutorOutcomes, term_has_keyword \in BOOLEAN }

\* The dispatch with the count incremented after the call, and only for a
\* call that succeeded.
LLMFunctionCallDispatch_CountsSuccesses ==
    /\ pc = "llm"
    /\ ~FallbackNeeded(function_call_count, max_function_calls, chat_state)
    /\ llm_calls' = llm_calls + 1
    /\ llm_response' = "function_call"
    /\ \E response \in FunctionCallResponses :
        LET parsed == JsonLoads(response.function_call.arguments)
        IN  IF parsed.raised
            THEN /\ Return("error", "Error", "json.loads")
                 /\ dispatches' = dispatches
                 /\ UNCHANGED <<chat_state, user_info, function_call_count>>
            ELSE \E done \in Outcomes(response.function_call.name, parsed.value) :
                 /\ dispatches' = dispatches + 1
                 /\ function_call_count' =
                      IF done.state = Success THEN function_call_count + 1
                      ELSE function_call_count
                 /\ BuildContext(user_message, previous_summary, chat_state,
                        function_call_result_section, done.state,
                        response.function_call.name, parsed.value, done.result,
                        IF done.state = Success THEN function_call_count + 1
                        ELSE function_call_count)
    /\ UNCHANGED <<ext_vars, mcp_vars, max_function_calls, chat_history, summary, vector_db, turns,
                   user_message, previous_summary, assistant_response,
                   fallback_calls, fallback_text, effects, history0, summary0,
                   vector_db0>>

\* The dispatch with every function call of the turn appended to the chat
\* history when it is made.
LLMFunctionCallDispatch_LogsCallInHistory ==
    /\ pc = "llm"
    /\ ~FallbackNeeded(function_call_count, max_function_calls, chat_state)
    /\ llm_calls' = llm_calls + 1
    /\ llm_response' = "function_call"
    /\ function_call_count' = function_call_count + 1
    /\ \E response \in FunctionCallResponses :
        LET parsed == JsonLoads(response.function_call.arguments)
        IN  IF parsed.raised
            THEN /\ Return("error", "Error", "json.loads")
                 /\ dispatches' = dispatches
                 /\ UNCHANGED <<chat_state, user_info>>
            ELSE \E done \in Outcomes(response.function_call.name, parsed.value) :
                 /\ dispatches' = dispatches + 1
                 /\ BuildContext(user_message, previous_summary, chat_state,
                        function_call_result_section, done.state,
                        response.function_call.name, parsed.value, done.result,
                        function_call_count + 1)
    /\ chat_history' = Append(chat_history, MsgPair(user_message, "function call"))
    /\ UNCHANGED <<ext_vars, mcp_vars, max_function_calls, summary, vector_db, turns,
                   user_message, previous_summary, assistant_response,
                   fallback_calls, fallback_text, effects, history0, summary0,
                   vector_db0>>

\* The completion asks for a function and the limit is not reached: the
\* count is incremented, the arguments are parsed (json.loads raises into the
\* except clause), the function is executed, and the next pass of the loop
\* builds the system prompt from its outcome.
LLMFunctionCallDispatch ==
    /\ pc = "llm"
    /\ ~FallbackNeeded(function_call_count, max_function_calls, chat_state)
    /\ llm_calls' = llm_calls + 1
    /\ llm_response' = "function_call"
    /\ function_call_count' = function_call_count + 1
    /\ \E response \in FunctionCallResponses :
        LET parsed == JsonLoads(response.function_call.arguments)
        IN  IF parsed.raised
            THEN /\ Return("error", "Error", "json.loads")
                 /\ dispatches' = dispatches
                 /\ UNCHANGED <<chat_state, user_info>>
            ELSE \E done \in Outcomes(response.function_call.name, parsed.value) :
                 /\ dispatches' = dispatches + 1
                 /\ BuildContext(user_message, previous_summary, chat_state,
                        function_call_result_section, done.state,
                        response.function_call.name, parsed.value, done.result,
                        function_call_count + 1)
    /\ UNCHANGED <<ext_vars, mcp_vars, max_function_calls, chat_history, summary, vector_db, turns,
                   user_message, previous_summary, assistant_response,
                   fallback_calls, fallback_text, effects, history0, summary0,
                   vector_db0>>

\* Neither content nor a function call: the warning is returned.
LLMNoContent ==
    /\ pc = "llm"
    /\ llm_calls' = llm_calls + 1
    /\ llm_response' = "empty"
    /\ Return("warning", "Warning: No valid assistant response", NoneVal)
    /\ UNCHANGED <<ext_vars, mcp_vars, session_vars, user_message, previous_summary, chat_state,
                   function_call_count, assistant_response, fallback_calls,
                   dispatches, fallback_text, effects, history0, summary0,
                   vector_db0>>

\* The steps of a running turn.
TurnStep ==
    \/ LLMRaises
    \/ LLMContent
    \/ LLMFunctionCallFallback
    \/ LLMFunctionCallDispatch
    \/ LLMNoContent

Next ==
    \/ \E message \in UserMessages : StartTurn(message)
    \/ LLMRaises
    \/ LLMContent
    \/ LLMFunctionCallFallback
    \/ LLMFunctionCallDispatch
    \/ LLMNoContent

Spec == Init /\ [][Next]_vars

\* The first call of chat() on a fresh session.
FirstTurn(message) ==
    /\ turns = 0
    /\ StartTurn(message)

NextOfTurn ==
    \/ \E message \in UserMessages : FirstTurn(message)
    \/ LLMRaises
    \/ LLMContent
    \/ LLMFunctionCallFallback
    \/ LLMFunctionCallDispatch
    \/ LLMNoContent

\* One call of chat(), which runs to its return: a completion or a tool call
\* that is made returns or raises. The loop's control flow reads nothing of
\* the memory earlier turns left, so one turn stands for each of them.
FairSpec == Init /\ [][NextOfTurn]_vars /\ WF_vars(TurnStep)

\* ------------------------------------------------- the chaining check alone

MsgUpperAddTo == <<"A","D","D"," ","T","O"," ","X">>

MsgHello == <<"H","e","l","l","o">>

AllKeywords ==
    ContentAdditionKeywords \cup ReadAndAddKeywords \cup PageUpdateKeywords
        \cup NewPageContentKeywords \cup MultiStepPatterns

\* Messages for the chaining check: every keyword of the code as a message
\* of its own, a keyword in upper case, messages with no keyword, the empty
\* message.
ChainingMessages == UserMessages \cup AllKeywords \cup { MsgUpperAddTo, MsgHello, <<>> }

\* The names the chaining check can see in function_name.
ChainingNames == RegisteredTools \cup { "notion_delete_page" }

\* A loop pass that starts after a successful call of any tool on any message.
ChainingInit ==
    /\ max_function_calls = MaxConfiguredCalls
    /\ user_info = "profile"
    /\ chat_history = <<>>
    /\ summary = {}
    /\ vector_db = {}
    /\ pc = "after call"
    /\ user_message \in ChainingMessages
    /\ previous_summary = {}
    /\ function_call_result_section = EmptySection
    /\ function_call_state = Success
    /\ chat_state = "thinking"
    /\ function_call_count = 1
    /\ function_name \in ChainingNames
    /\ function_args = "dict_matching"
    /\ function_call_result = [detail |-> "found", hint |-> FALSE]
    /\ system_prompt = NoPrompt
    /\ assistant_response = NoneVal
    /\ result = NoReturn
    /\ turns = 1
    /\ llm_calls = 1
    /\ fallback_calls = 0
    /\ dispatches = 1
    /\ llm_response = "function_call"
    /\ fallback_text = NoneVal
    /\ effects = NoEffects
    /\ error_cause = NoneVal
    /\ history0 = <<>>
    /\ summary0 = {}
    /\ vector_db0 = {}
    /\ NoToolCall
    /\ NoExt
    /\ NoSplit

\* The chaining check and the rendering that follows it (lines 211-260).
ChainingCheck ==
    /\ pc = "after call"
    /\ function_call_state = Success
    /\ pc' = "checked"
    /\ chat_state' = ChainingDecision(function_name, user_message).chat_state
    /\ function_call_result_section' =
         ExecutedSection(function_name, function_args, function_call_state,
             function_call_result,
             ChainingDecision(function_name, user_message).chaining_guidance)
    /\ UNCHANGED <<ext_vars, mcp_vars, session_vars, user_message, previous_summary,
                   function_call_state, function_call_count, function_name,
                   function_args, function_call_result, system_prompt,
                   assistant_response, result, ghost_vars>>

ChainingSpec == ChainingInit /\ [][ChainingCheck]_vars

\* ------------------------------------------ calls that are never answered

\* The tool-enabled completion is never answered.  create() is called with
\* no timeout (lines 291-298) and the client is built with none (line 40):
\* the call does not return and chat() stays in it.
LLMNeverAnswers ==
    /\ pc = "llm"
    /\ pc' = "blocked"
    /\ llm_calls' = llm_calls + 1
    /\ llm_response' = "never answered"
    /\ UNCHANGED <<ext_vars, mcp_vars, session_vars, user_message, previous_summary,
                   function_call_result_section, function_call_state,
                   chat_state, function_call_count, function_name,
                   function_args, function_call_result, system_prompt,
                   assistant_response, result, fallback_calls, dispatches,
                   fallback_text, effects, error_cause, history0, summary0,
                   vector_db0>>

\* The completion asks for a function whose executor is never answered.
\* execute_function_call calls the tool's method directly (lines 124-183),
\* with no timeout around it: the call does not return.
ToolNeverAnswers ==
    /\ pc = "llm"
    /\ ~FallbackNeeded(function_call_count, max_function_calls, chat_state)
    /\ pc' = "blocked"
    /\ llm_calls' = llm_calls + 1
    /\ llm_response' = "function_call"
    /\ function_call_count' = function_call_count + 1
    /\ dispatches' = dispatches + 1
    /\ \E response \in FunctionCallResponses :
        /\ ~JsonLoads(response.function_call.arguments).raised
        /\ response.function_call.name \in RegisteredTools
        /\ function_name' = response.function_call.name
        /\ function_args' = JsonLoads(response.function_call.arguments).value
    /\ function_call_state' = "never answered"
    /\ UNCHANGED <<ext_vars, mcp_vars, session_vars, user_message, previous_summary,
                   function_call_result_section, chat_state,
                   function_call_result, system_prompt, assistant_response,
                   result, fallback_calls, fallback_text, effects, error_cause,
                   history0, summary0, vector_db0>>

\* One call of chat() whose LLM and tools answer, raise, or never answer.
NextOrNeverAnswered ==
    \/ \E message \in UserMessages : FirstTurn(message)
    \/ LLMRaises
    \/ LLMContent
    \/ LLMFunctionCallFallback
    \/ LLMFunctionCallDispatch
    \/ LLMNoContent
    \/ LLMNeverAnswers
    \/ ToolNeverAnswers

UnansweredSpec == Init /\ [][NextOrNeverAnswered]_vars

\* ------------------------------------------------- the MCP HTTP tool boundary

\* The tool names execute_tool of the HTTP server knows.
ServerTools ==
    { "search_notion_pages", "get_notion_page", "create_notion_page",
      "get_notion_database" }

\* The names a caller of call_tool_sync asks for: the server's and one the
\* server does not know.
McpToolNames == ServerTools \cup { "delete_notion_page" }

\* The arguments of a call, as json.loads gave them to the caller.
McpArguments == { "dict_matching", "dict_mismatching", "list" }

\* How the Notion client ends inside a tool method of the server: it
\* returns, it raises APIResponseError, or it raises something else.
NotionOutcomes == { "returned", "APIResponseError", "raised" }

\* MCPHTTPHandler.execute_tool: the text it returns.  The tool methods catch
\* APIResponseError and return its text; execute_tool catches every other
\* exception (also arguments.get on arguments that are no dict) and returns
\* its text; a name it does not know gets a text too.
ExecuteTool(name, args, notion) ==
    IF name \in ServerTools
    THEN IF ~IsDict(args) THEN "Error executing"
         ELSE IF notion = "returned" THEN "Found pages"
         ELSE IF notion = "APIResponseError" THEN "Notion API error"
         ELSE "Error executing"
    ELSE "Unknown tool"

\* Whether the tool on the server failed: unknown name, Notion API error,
\* exception in the tool method.
ToolFailed(name, args, notion) ==
    \/ name \notin ServerTools
    \/ ~IsDict(args)
    \/ notion # "returned"

\* "params" of a request: a JSON object with "name" and "arguments", a JSON
\* array, or no "params" key at all.
ObjectParams(name, args) == [kind |-> "object", name |-> name, arguments |-> args]

ArrayParams == [kind |-> "array", name |-> "", arguments |-> "list"]

AbsentParams == [kind |-> "absent", name |-> "", arguments |-> "dict_mismatching"]

\* "id" of a request: the number the request carries, or no "id" key.
RequestId(n) == [present |-> TRUE, value |-> n]

AbsentId == [present |-> FALSE, value |-> 0]

\* A JSON body, by its keys and the values of the keys it has.
JsonBody(keys, jsonrpc, id, content, tools, code) ==
    [keys |-> keys, jsonrpc |-> jsonrpc, id |-> id,
     result |-> [content |-> content, tools |-> tools],
     error |-> [code |-> code]]

\* MCPHTTPHandler.handle_mcp_request: the JSON-RPC answer to a request, or
\* the exception of params.get on params that are no object.  A request
\* without "id" is answered with id 1, one without "params" is read as {}.
HandleMcpRequest(request, notion) ==
    LET request_id == IF request.id.present THEN request.id.value ELSE 1
    IN  IF request.method = "tools/list"
        THEN [raised |-> FALSE,
              body |-> JsonBody({ "jsonrpc", "id", "result" }, "2.0", request_id,
                                <<>>, ServerTools, 0)]
        ELSE IF request.method = "tools/call"
        THEN IF request.params.kind = "array"
             THEN [raised |-> TRUE,
                   body |-> JsonBody({}, NoneVal, 0, <<>>, {}, 0)]
             ELSE [raised |-> FALSE,
                   body |-> JsonBody({ "jsonrpc", "id", "result" }, "2.0", request_id,
                                << [type |-> "text",
                                    text |-> ExecuteTool(request.params.name,
                                                 request.params.arguments, notion)] >>,
                                {}, 0)]
        ELSE [raised |-> FALSE,
              body |-> JsonBody({ "jsonrpc", "id", "error" }, "2.0", request_id,
                                <<>>, {}, -32601)]

\* MCPHTTPHandler.do_POST: status 200 with the answer of handle_mcp_request,
\* or status 500 with "error" and "message" when it raised.
DoPost(request, notion) ==
    IF HandleMcpRequest(request, notion).raised
    THEN [status |-> 500,
          data |-> JsonBody({ "error", "message" }, NoneVal, 0, <<>>, {}, 0)]
    ELSE [status |-> 200, data |-> HandleMcpRequest(request, notion).body]

\* MCPClientManager._call_http_tool: the (state, result) pair it makes of
\* the HTTP response.
CallHttpToolResult(response) ==
    IF response.status = 200
    THEN IF "result" \in response.data.keys
         THEN IF Len(response.data.result.content) > 0
              THEN [state |-> Success, result |-> response.data.result.content[1].text]
              ELSE [state |-> Success, result |-> "str(result)"]
         ELSE IF "error" \in response.data.keys
         THEN [state |-> Failed, result |-> "Server error"]
         ELSE [state |-> Failed, result |-> "Unexpected response"]
    ELSE [state |-> Failed, result |-> "HTTP status"]

\* The variables of a chat() turn, which a call of call_tool_sync leaves alone.
chat_vars == <<session_vars, user_message, previous_summary,
               function_call_result_section, function_call_state, chat_state,
               function_call_count, function_name, function_args,
               function_call_result, system_prompt, assistant_response, result,
               ghost_vars>>

\* How the check of the HTTP server ends in initialize_notion_server_http:
\* status 200 with "status": "running", status 200 with another body,
\* another status, an exception.
HttpChecks == { "running", "not running", "unreachable", "raised" }

\* How initialize_notion_server ends: the session is stored and list_tools
\* answers; the stdio client or session.initialize() raises, before the
\* session is stored; list_tools raises, after the session is stored.
StdioStarts == { "connected", "start raised", "list_tools raised" }

\* initialize_notion_server_http: whether it registers the URL and returns
\* True.
InitializeNotionServerHttp(http) == http = "running"

\* initialize_notion_server: what it leaves in self.sessions and returns.
InitializeNotionServer(stdio) ==
    [stored |-> stdio \in { "connected", "list_tools raised" },
     returned |-> stdio = "connected"]

\* initialize_notion_with_fallback on a fresh manager: HTTP first, stdio
\* when HTTP returned False.
InitializeNotionWithFallback(http, stdio) ==
    /\ pc = "idle"
    /\ init_returned = NoneVal
    /\ IF InitializeNotionServerHttp(http)
       THEN /\ http_clients' = http_clients \cup { "notion" }
            /\ sessions' = sessions
            /\ init_trace' = << [transport |-> "http", ok |-> TRUE] >>
            /\ init_returned' = "True"
       ELSE /\ http_clients' = http_clients
            /\ sessions' = IF InitializeNotionServer(stdio).stored
                           THEN sessions \cup { "notion" } ELSE sessions
            /\ init_trace' =
                 << [transport |-> "http", ok |-> FALSE],
                    [transport |-> "stdio",
                     ok |-> InitializeNotionServer(stdio).returned] >>
            /\ init_returned' = IF InitializeNotionServer(stdio).returned
                                THEN "True" ELSE "False"
    /\ UNCHANGED <<chat_vars, pc, mcp_vars, capture_vars, clock, assemble_log,
                   graph_vars, split_vars>>

\* _call_tool_async with no "notion" in http_clients nor in sessions: the
\* failure is returned.
CallToolNotConnected(name, args) ==
    /\ pc = "idle"
    /\ "notion" \notin http_clients
    /\ "notion" \notin sessions
    /\ pc' = "done"
    /\ tool_name' = name
    /\ tool_arguments' = args
    /\ tool_outcome' = "not run"
    /\ tool_result' = [state |-> Failed, result |-> "Server not connected"]
    /\ UNCHANGED <<ext_vars, chat_vars, request_data, http_response>>

\* _call_tool_async over the stdio session: session.call_tool returns, and
\* its content is returned as a success, or it raises.
CallToolOverSession(name, args, returns) ==
    /\ pc = "idle"
    /\ "notion" \notin http_clients
    /\ "notion" \in sessions
    /\ pc' = "done"
    /\ tool_name' = name
    /\ tool_arguments' = args
    /\ tool_outcome' = "over session"
    /\ tool_result' = IF returns
                      THEN [state |-> Success, result |-> "content text"]
                      ELSE [state |-> Failed, result |-> "Error calling"]
    /\ UNCHANGED <<ext_vars, chat_vars, request_data, http_response>>

\* call_tool_sync is called on a manager with "notion" in http_clients and
\* _call_http_tool posts the JSON-RPC request.
CallToolSync(name, args) ==
    /\ pc = "idle"
    /\ "notion" \in http_clients
    /\ pc' = "posted"
    /\ tool_name' = name
    /\ tool_arguments' = args
    /\ request_data' = [method |-> "tools/call",
                        params |-> ObjectParams(name, args),
                        id |-> RequestId(1)]
    /\ UNCHANGED <<ext_vars, chat_vars, http_response, tool_outcome, tool_result>>

\* do_POST: the server handles the request and answers it.
ServerHandles ==
    /\ pc = "posted"
    /\ pc' = "responded"
    /\ \E notion \in NotionOutcomes :
        /\ tool_outcome' = IF \/ request_data.method # "tools/call"
                              \/ request_data.params.kind = "array"
                           THEN "not run"
                           ELSE IF ToolFailed(request_data.params.name,
                                       request_data.params.arguments, notion)
                           THEN "failed" ELSE "succeeded"
        /\ http_response' = DoPost(request_data, notion)
    /\ UNCHANGED <<ext_vars, chat_vars, tool_name, tool_arguments, request_data, tool_result>>

\* The host answers for a server that is not up: a status other than 200.
ServerUnavailable ==
    /\ pc = "posted"
    /\ pc' = "responded"
    /\ tool_outcome' = "not run"
    /\ http_response' = [status |-> 503,
                         data |-> JsonBody({}, NoneVal, 0, <<>>, {}, 0)]
    /\ UNCHANGED <<ext_vars, chat_vars, tool_name, tool_arguments, request_data, tool_result>>

\* _call_http_tool reads the response and call_tool_sync returns its pair.
ClientReads ==
    /\ pc = "responded"
    /\ pc' = "done"
    /\ tool_result' = CallHttpToolResult(http_response)
    /\ UNCHANGED <<ext_vars, chat_vars, tool_name, tool_arguments, request_data,
                   http_response, tool_outcome>>

\* The POST raises (no connection): the except clause of _call_http_tool.
RequestFails ==
    /\ pc = "posted"
    /\ pc' = "done"
    /\ tool_outcome' = "not run"
    /\ tool_result' = [state |-> Failed, result |-> "HTTP tool call error"]
    /\ UNCHANGED <<ext_vars, chat_vars, tool_name, tool_arguments, request_data,
                   http_response>>

\* future.result(timeout=30) raises before the call is through: the except
\* clause of call_tool_sync.
WaitTimesOut ==
    /\ pc \in { "posted", "responded" }
    /\ pc' = "done"
    /\ tool_result' = [state |-> Failed, result |-> "Error calling"]
    /\ UNCHANGED <<ext_vars, chat_vars, tool_name, tool_arguments, request_data,
                   http_response, tool_outcome>>

McpNext ==
    \/ \E http \in HttpChecks, stdio \in StdioStarts :
         InitializeNotionWithFallback(http, stdio)
    \/ \E name \in McpToolNames, args \in McpArguments :
         CallToolNotConnected(name, args)
    \/ \E name \in McpToolNames, args \in McpArguments, returns \in BOOLEAN :
         CallToolOverSession(name, args, returns)
    \/ \E name \in McpToolNames, args \in McpArguments : CallToolSync(name, args)
    \/ ServerHandles
    \/ ServerUnavailable
    \/ ClientReads
    \/ RequestFails
    \/ WaitTimesOut

\* A fresh MCPClientManager: its initialization and one call of
\* call_tool_sync.
McpSpec == Init /\ [][McpNext]_vars

\* ------------------------------------- the tools that capture sys.stdout

\* The most lines the operation of one tool call prints.
MaxPrints == 2

\* The tools of Chatbot that redirect sys.stdout into a StringIO while their
\* operation runs and return what it collected.
CapturingTools ==
    { "notion_workspace_analytics", "notion_content_analytics",
      "notion_activity_analytics", "notion_bulk_list_pages",
      "notion_bulk_analyze_pages" }

\* The tools whose operation lets an exception out: bulk_analyze_pages calls
\* input() before its try; the other operations catch what they raise.
RaisingTools == { "notion_bulk_analyze_pages" }

\* The lines a call owns: what its operation printed, each marked with the
\* session that printed it.
OwnOutput(s) == [i \in 1..printed[s] |-> s]

\* execute_function_call of a session reaches one of the tools, and the tool
\* runs `old_stdout = sys.stdout`.
SaveStdout(s, tool) ==
    /\ capture_pc[s] = "ready"
    /\ capture_tool' = [capture_tool EXCEPT ![s] = tool]
    /\ old_stdout' = [old_stdout EXCEPT ![s] = sys_stdout]
    /\ capture_pc' = [capture_pc EXCEPT ![s] = "saved"]
    /\ UNCHANGED <<chat_vars, pc, mcp_vars, graph_vars, manager_vars, split_vars, clock, assemble_log, sys_stdout, captured_output, printed,
                   capture_result>>

\* `sys.stdout = captured_output = io.StringIO()`
RedirectStdout(s) ==
    /\ capture_pc[s] = "saved"
    /\ sys_stdout' = s
    /\ capture_pc' = [capture_pc EXCEPT ![s] = "capturing"]
    /\ UNCHANGED <<chat_vars, pc, mcp_vars, graph_vars, manager_vars, split_vars, clock, assemble_log, old_stdout, captured_output, printed,
                   capture_tool, capture_result>>

\* The operation prints a line: print writes to whatever sys.stdout is now.
PrintLine(s) ==
    /\ capture_pc[s] = "capturing"
    /\ printed[s] < MaxPrints
    /\ printed' = [printed EXCEPT ![s] = @ + 1]
    /\ captured_output' =
         IF sys_stdout \in Sessions
         THEN [captured_output EXCEPT ![sys_stdout] = Append(@, s)]
         ELSE captured_output
    /\ UNCHANGED <<chat_vars, pc, mcp_vars, graph_vars, manager_vars, split_vars, clock, assemble_log, sys_stdout, old_stdout, capture_pc,
                   capture_tool, capture_result>>

\* The operation raises: the except clause returns the failure.
OperationRaises(s) ==
    /\ capture_pc[s] = "capturing"
    /\ capture_tool[s] \in RaisingTools
    /\ capture_result' = [capture_result EXCEPT
                            ![s] = [state |-> Failed, text |-> <<>>]]
    /\ capture_pc' = [capture_pc EXCEPT ![s] = "returned"]
    /\ UNCHANGED <<chat_vars, pc, mcp_vars, graph_vars, manager_vars, split_vars, clock, assemble_log, sys_stdout, old_stdout, captured_output,
                   printed, capture_tool>>

\* The operation is through: `sys.stdout = old_stdout`
RestoreStdout(s) ==
    /\ capture_pc[s] = "capturing"
    /\ printed[s] >= 1
    /\ sys_stdout' = old_stdout[s]
    /\ capture_pc' = [capture_pc EXCEPT ![s] = "restored"]
    /\ UNCHANGED <<chat_vars, pc, mcp_vars, graph_vars, manager_vars, split_vars, clock, assemble_log, old_stdout, captured_output, printed,
                   capture_tool, capture_result>>

\* `result_text = captured_output.getvalue()` and the return.
GetValue(s) ==
    /\ capture_pc[s] = "restored"
    /\ capture_result' = [capture_result EXCEPT
                            ![s] = [state |-> Success, text |-> captured_output[s]]]
    /\ capture_pc' = [capture_pc EXCEPT ![s] = "returned"]
    /\ UNCHANGED <<chat_vars, pc, mcp_vars, graph_vars, manager_vars, split_vars, clock, assemble_log, sys_stdout, old_stdout, captured_output,
                   printed, capture_tool>>

CaptureNext ==
    \/ \E s \in Sessions, tool \in CapturingTools : SaveStdout(s, tool)
    \/ \E s \in Sessions : RedirectStdout(s)
    \/ \E s \in Sessions : PrintLine(s)
    \/ \E s \in Sessions : OperationRaises(s)
    \/ \E s \in Sessions : RestoreStdout(s)
    \/ \E s \in Sessions : GetValue(s)

\* Two Chatbot instances of one process, each calling a capturing tool from
\* a thread of its own; a thread switch can fall between any two statements.
CaptureSpec == Init /\ [][CaptureNext]_vars

\* ------------------------------------------- turns on a session with history

\* The pairs earlier turns of the session left in the history, oldest first.
EarlierPairs ==
    [i \in 1..max_history_pairs |-> MsgPair(MsgHello, <<"earlier answer", i>>)]

\* A session that has had turns before: its history holds up to
\* max_history_pairs pairs, and one function call is configured per turn.
HistoryInit ==
    /\ max_function_calls = 1
    /\ user_info = "profile"
    /\ chat_history \in { SubSeq(EarlierPairs, 1, n) : n \in 0..max_history_pairs }
    /\ summary = {}
    /\ vector_db = {}
    /\ pc = "idle"
    /\ user_message = <<>>
    /\ previous_summary = {}
    /\ function_call_result_section = EmptySection
    /\ function_call_state = NoneVal
    /\ chat_state = "thinking"
    /\ function_call_count = 0
    /\ function_name = Unbound
    /\ function_args = Unbound
    /\ function_call_result = NoResult
    /\ system_prompt = NoPrompt
    /\ assistant_response = NoneVal
    /\ result = NoReturn
    /\ turns = 0
    /\ llm_calls = 0
    /\ fallback_calls = 0
    /\ dispatches = 0
    /\ llm_response = NoneVal
    /\ fallback_text = NoneVal
    /\ effects = NoEffects
    /\ error_cause = NoneVal
    /\ history0 = <<>>
    /\ summary0 = {}
    /\ vector_db0 = {}
    /\ NoToolCall
    /\ NoExt
    /\ NoSplit

\* Turns of chat() on such a session.
HistorySpec == HistoryInit /\ [][Next]_vars

\* ------------------------------------------------ the context assembler alone

\* The most calls of the assembler in one behaviour, and the latest time.
MaxAssembles == 2

\* The values the assembler is called with.
AssembleInfos == { "profile", "profile with a new name" }

AssembleSummaries == { {}, { MsgPair(MsgHello, "earlier answer") } }

AssembleHistories == { <<>>, << MsgPair(MsgHello, "answer") >> }

AssembleSections == { EmptySection, LimitSection }

\* Time passes between calls.
ClockTicks ==
    /\ clock < MaxAssembles
    /\ clock' = clock + 1
    /\ UNCHANGED <<chat_vars, pc, mcp_vars, graph_vars, manager_vars, split_vars, capture_vars, assemble_log>>

\* prepare_system_prompt_for_agentic_chatbot_v4 is called; the call, its
\* arguments and what it returned are logged.
Assemble(info, chat_summary, history, section) ==
    /\ Cardinality(assemble_log) < MaxAssembles
    /\ assemble_log' = assemble_log \cup
         { [args |-> <<info, chat_summary, history, section>>,
            at |-> clock,
            prompt |-> prepare_system_prompt_for_agentic_chatbot_v4(
                           info, chat_summary, history, section)] }
    /\ UNCHANGED <<chat_vars, pc, mcp_vars, graph_vars, manager_vars, split_vars, capture_vars, clock>>

AssembleNext ==
    \/ ClockTicks
    \/ \E info \in AssembleInfos, chat_summary \in AssembleSummaries,
          history \in AssembleHistories, section \in AssembleSections :
         Assemble(info, chat_summary, history, section)

\* Calls of the context assembler at different times on arguments that may
\* or may not repeat.
AssembleSpec == Init /\ [][AssembleNext]_vars

\* ---------------------------------------------------- the LangGraph chatbot

\* The functions _execute_function knows.
GraphTools == { "search_vector_db", "add_user_info_to_database" }

\* The names the LLM asks the LangGraph chatbot for: its two functions and
\* one it does not have.
GraphRequestedTools == GraphTools \cup { "notion_search_content" }

HumanMessage(content) == [type |-> "human", content |-> content]

AIMessage(content) == [type |-> "ai", content |-> content]

\* isinstance(state["messages"][-1], AIMessage)
LastIsAIMessage(msgs) == Len(msgs) > 0 /\ msgs[Len(msgs)].type = "ai"

\* prompt.format(...) of the v2 prompt: the four values placed in the template.
prepare_system_prompt_for_agentic_chatbot_v2(info, chat_summary, history, section) ==
    [user_info |-> info, chat_summary |-> chat_summary,
     chat_history |-> history, function_call_result_section |-> section]

\* The prompt _generate_response builds: the limit text replaces the section
\* once function_call_count has reached max_function_calls.
GraphPrompt ==
    prepare_system_prompt_for_agentic_chatbot_v2(user_info, summary, chat_history,
        IF function_call_count >= max_function_calls
        THEN LimitSection ELSE function_call_result_section)

\* _execute_function: what the node returns for a name, parsed arguments and
\* the way the function's own code ends.  rendered is FALSE when the except
\* clause returned, which leaves function_call_result_section as it was.
GraphExecuteFunction(name, args, executor) ==
    LET caught == [state |-> Failed, rendered |-> FALSE,
                   result |-> [detail |-> "Error executing function", hint |-> FALSE]]
        ran == IF executor.raised THEN caught
               ELSE [state |-> executor.state, rendered |-> TRUE,
                     result |-> [detail |-> executor.detail, hint |-> FALSE]]
        called == IF name = "search_vector_db"
                  THEN IF args # "dict_matching" THEN caught ELSE ran
                  ELSE IF name = "add_user_info_to_database" THEN ran
                  ELSE [state |-> Failed, rendered |-> TRUE,
                        result |-> [detail |-> "Unknown function", hint |-> FALSE]]
    IN  IF called.rendered /\ ~IsDict(args) THEN caught ELSE called

GraphOutcomes(name, args) ==
    { GraphExecuteFunction(name, args, executor) : executor \in ExecutorOutcomes }

\* if function_call_state == "Function call successful." and
\*    function_call_count < self.max_function_calls: "continue" else "finalize"
ShouldContinueConversation(state, count, max_calls) ==
    IF state = Success /\ count < max_calls THEN "continue" ELSE "finalize"

\* AgenticChatbot.chat invokes the graph and _initialize_conversation sets
\* the state keys.
GraphInvoke(message) ==
    /\ pc \in { "idle", "returned" }
    /\ turns < MaxTurns
    /\ turns' = turns + 1
    /\ pc' = "agent"
    /\ user_message' = message
    /\ messages' = << HumanMessage(message) >>
    /\ function_call_count' = 0
    /\ function_call_state' = NoneVal
    /\ function_call_result' = NoResult
    /\ function_name' = NoneVal
    /\ function_args' = NoneVal
    /\ chat_state' = "thinking"
    /\ error_message' = NoneVal
    /\ function_call_result_section' = EmptySection
    /\ system_prompt' = NoPrompt
    /\ assistant_response' = NoneVal
    /\ result' = NoReturn
    /\ llm_calls' = 0
    /\ fallback_calls' = 0
    /\ dispatches' = 0
    /\ llm_response' = NoneVal
    /\ fallback_text' = NoneVal
    /\ effects' = NoEffects
    /\ error_cause' = NoneVal
    /\ history0' = chat_history
    /\ summary0' = summary
    /\ vector_db0' = vector_db
    /\ UNCHANGED <<mcp_vars, manager_vars, split_vars, capture_vars, clock, assemble_log, max_function_calls,
                   user_info, chat_history, summary, vector_db, previous_summary>>

\* What no step of the graph between invoke and finalize changes.
graph_frame == <<mcp_vars, manager_vars, split_vars, capture_vars, clock, assemble_log, session_vars,
                 user_message, previous_summary, assistant_response, result,
                 fallback_calls, fallback_text, effects, history0, summary0,
                 vector_db0>>

\* _generate_response: the completion (or a call before it) raises; the
\* except clause sets error_message and _should_call_function says "finalize".
AgentRaises ==
    /\ pc = "agent"
    /\ pc' = "finalize"
    /\ llm_calls' = llm_calls + 1
    /\ llm_response' = "raised"
    /\ error_message' = "Error"
    /\ error_cause' = "llm"
    /\ chat_state' = "finished"
    /\ UNCHANGED <<graph_frame, messages, function_call_count, function_call_state,
                   function_call_result, function_name, function_args,
                   function_call_result_section, system_prompt, dispatches>>

\* _generate_response: the completion returns content, which is appended to
\* the messages; _should_call_function says "finalize".
AgentContent ==
    /\ pc = "agent"
    /\ pc' = "finalize"
    /\ llm_calls' = llm_calls + 1
    /\ llm_response' = "content"
    /\ \E content \in Texts : messages' = Append(messages, AIMessage(content))
    /\ chat_state' = "finished"
    /\ system_prompt' = GraphPrompt
    /\ UNCHANGED <<graph_frame, error_message, error_cause, function_call_count,
                   function_call_state, function_call_result, function_name,
                   function_args, function_call_result_section, dispatches>>

\* _generate_response: the completion asks for a function.  json.loads of
\* its arguments raises on text that is no JSON (the except clause sets
\* error_message, "finalize"); else _should_call_function says
\* "function_call".
AgentFunctionCall ==
    /\ pc = "agent"
    /\ llm_calls' = llm_calls + 1
    /\ llm_response' = "function_call"
    /\ \E name \in GraphRequestedTools, arguments \in ArgumentStrings :
        LET parsed == JsonLoads(arguments)
        IN  IF parsed.raised
            THEN /\ pc' = "finalize"
                 /\ error_message' = "Error"
                 /\ error_cause' = "json.loads"
                 /\ chat_state' = "finished"
                 /\ UNCHANGED <<function_name, function_args, system_prompt>>
            ELSE /\ pc' = "execute_function"
                 /\ function_name' = name
                 /\ function_args' = parsed.value
                 /\ chat_state' = "function_call"
                 /\ system_prompt' = GraphPrompt
                 /\ UNCHANGED <<error_message, error_cause>>
    /\ UNCHANGED <<graph_frame, messages, function_call_count, function_call_state,
                   function_call_result, function_call_result_section, dispatches>>

\* _generate_response: neither content nor a function call; error_message is
\* set and _should_call_function says "finalize".
AgentNoContent ==
    /\ pc = "agent"
    /\ pc' = "finalize"
    /\ llm_calls' = llm_calls + 1
    /\ llm_response' = "empty"
    /\ error_message' = "No valid assistant response"
    /\ error_cause' = "no response"
    /\ chat_state' = "finished"
    /\ UNCHANGED <<graph_frame, messages, function_call_count, function_call_state,
                   function_call_result, function_name, function_args,
                   function_call_result_section, system_prompt, dispatches>>

\* _execute_function runs the function and counts it;
\* _should_continue_conversation sends the graph back to the agent or on to
\* finalize.
ExecuteFunctionNode ==
    /\ pc = "execute_function"
    /\ dispatches' = dispatches + 1
    /\ function_call_count' = function_call_count + 1
    /\ \E done \in GraphOutcomes(function_name, function_args) :
        /\ function_call_state' = done.state
        /\ function_call_result' = done.result
        /\ function_call_result_section' =
             IF ~done.rendered THEN function_call_result_section
             ELSE IF done.state = Success
             THEN ExecutedSection(function_name, function_args, done.state,
                                  done.result, "")
             ELSE AttemptedSection(function_name, function_args, done.state,
                                   done.result)
        /\ pc' = IF ShouldContinueConversation(done.state, function_call_count + 1,
                                               max_function_calls) = "continue"
                 THEN "agent" ELSE "finalize"
    /\ UNCHANGED <<graph_frame, messages, error_message, error_cause, chat_state,
                   function_name, function_args, system_prompt, llm_calls,
                   llm_response>>

\* The calls of _finalize_response when it makes the fallback completion.
GraphFallbackSteps == <<"fallback_completion">> \o PersistSteps

\* The fallback test of _finalize_response: no AI message yet and the count
\* at the limit.
GraphFallbackNeeded(msgs, count, max_calls) ==
    ~LastIsAIMessage(msgs) /\ count >= max_calls

\* _finalize_response: the fallback completion when it is needed, then the
\* pair is appended, the summary checked, the index updated and refreshed;
\* the except clause sets error_message when one of the calls raises
\* (reading state["system_prompt"] raises when no agent step has set it).
\* The graph ends and chat() returns the error, the last AI message or
\* "No response generated".
FinalizeResponse ==
    /\ pc = "finalize"
    /\ pc' = "returned"
    /\ chat_state' = "finished"
    /\ LET needed == GraphFallbackNeeded(messages, function_call_count,
                                         max_function_calls)
           steps == IF needed THEN GraphFallbackSteps ELSE PersistSteps
       IN  \E text \in Texts, over_budget \in BOOLEAN,
              fail \in Range(steps) \cup { NoneVal } :
            /\ (needed /\ system_prompt = NoPrompt) => fail = "fallback_completion"
            /\ LET answered == needed /\ fail # "fallback_completion"
                   msgs == IF answered THEN Append(messages, AIMessage(text))
                           ELSE messages
                   final == IF LastIsAIMessage(msgs)
                            THEN msgs[Len(msgs)].content ELSE ""
                   error == IF fail # NoneVal THEN "Error finalizing response"
                            ELSE error_message
               IN  /\ messages' = msgs
                   /\ fallback_calls' = IF needed /\ system_prompt # NoPrompt
                                        THEN fallback_calls + 1 ELSE fallback_calls
                   /\ fallback_text' = IF answered THEN text ELSE fallback_text
                   /\ assistant_response' = IF fail = "fallback_completion"
                                            THEN assistant_response ELSE final
                   /\ Persist(steps, fail, final, over_budget)
                   /\ error_message' = error
                   /\ result' = IF error # NoneVal
                                THEN [kind |-> "error", text |-> error]
                                ELSE IF LastIsAIMessage(msgs)
                                THEN [kind |-> "response", text |-> final]
                                ELSE [kind |-> "warning",
                                      text |-> "No response generated"]
    /\ UNCHANGED <<mcp_vars, manager_vars, split_vars, capture_vars, clock, assemble_log, max_function_calls,
                   user_info, turns, user_message, previous_summary,
                   function_call_count, function_call_state, function_call_result,
                   function_name, function_args, function_call_result_section,
                   system_prompt, llm_calls, llm_response, dispatches, error_cause,
                   history0, summary0, vector_db0>>

GraphNext ==
    \/ \E message \in UserMessages : GraphInvoke(message)
    \/ AgentRaises
    \/ AgentContent
    \/ AgentFunctionCall
    \/ AgentNoContent
    \/ ExecuteFunctionNode
    \/ FinalizeResponse

\* Turns of AgenticChatbot.chat through its graph: initialize, agent,
\* function call, finalize.
GraphSpec == Init /\ [][GraphNext]_vars

\* ------------------------------------------- requests to the MCP HTTP server

\* The methods of the requests: the two the server knows, one it does not,
\* and the empty one of a request without "method".
RpcMethods == { "tools/list", "tools/call", "initialize", "" }

\* The params of the requests.
RpcParams ==
    { ObjectParams(name, args) : name \in McpToolNames, args \in McpArguments }
        \cup { ArrayParams, AbsentParams }

\* The ids of the requests.
RpcIds == { RequestId(7), AbsentId }

\* do_POST has read and parsed a request.
ReceiveRequest(method, params, id) ==
    /\ pc = "idle"
    /\ pc' = "posted"
    /\ request_data' = [method |-> method, params |-> params, id |-> id]
    /\ UNCHANGED <<ext_vars, chat_vars, tool_name, tool_arguments, http_response,
                   tool_outcome, tool_result>>

RpcNext ==
    \/ \E method \in RpcMethods, params \in RpcParams, id \in RpcIds :
         ReceiveRequest(method, params, id)
    \/ ServerHandles

\* One request of any client to the HTTP server.
RpcSpec == Init /\ [][RpcNext]_vars

\* --------------------------------------------------- the long-content splitters
\* NotionUtils.split_long_content (notion_utils.py) and the copies of its
\* loop in notion_add_paragraph, notion_add_bullet_point, notion_add_todo and
\* notion_add_multiple_todos (chatbot_agentic_v3.py, where the limit is the
\* local MAX_BLOCK_LENGTH).  Content is a sequence of one-character strings;
\* indexes are Python's, counted from 0, and a failed rfind is -1.

\* The longest content that is enumerated character by character, the
\* limit it is split at, and the length of the pattern that is repeated to
\* make contents of several chunks.
MaxContentLen == 8
MaxSplitLength == 7
MaxPatternLen == 6

\* The characters the splitters tell apart: a letter, the space, a sentence
\* end and the newline.
SplitAlphabet == {"a", " ", ".", "\n"}

\* str.strip() removes these from both ends.
Whitespace == {" ", "\n"}

\* max(...) of the four rfind results.
MaxOf(S) == CHOOSE x \in S : \A y \in S : y <= x

\* chunk.rfind(c) for a one-character c.
RFindChar(chunk, c) ==
    MaxOf({-1} \cup {i - 1 : i \in {j \in 1..Len(chunk) : chunk[j] = c}})

\* chunk.rfind(c + ' '): the index of the last c that a space follows.
RFindBeforeSpace(chunk, c) ==
    MaxOf({-1} \cup {i - 1 : i \in {j \in 1..(Len(chunk) - 1) :
                                       chunk[j] = c /\ chunk[j + 1] = " "}})

\* str.strip().
Strip(s) ==
    LET kept == {i \in 1..Len(s) : s[i] \notin Whitespace}
    IN  IF kept = {} THEN <<>>
        ELSE SubSeq(s, CHOOSE i \in kept : \A j \in kept : i <= j, MaxOf(kept))

\* remaining_content[from:], with Python's 0-based from.
SliceFrom(s, from) == SubSeq(s, from + 1, Len(s))

\* A pass that looks for the break point in all the content that remains
\* instead of in its first max_length characters.
BreakContent_SearchesAllContent(remaining_content, max_length) ==
    LET chunk == remaining_content
        last_sentence == MaxOf({RFindBeforeSpace(chunk, "."),
                                RFindBeforeSpace(chunk, "!"),
                                RFindBeforeSpace(chunk, "?"),
                                RFindChar(chunk, "\n")})
        last_space == RFindChar(chunk, " ")
    IN  IF 10 * last_sentence > 7 * max_length
        THEN [chunk |-> Strip(SubSeq(remaining_content, 1, last_sentence + 1)),
              remaining |-> Strip(SliceFrom(remaining_content, last_sentence + 1)),
              rule |-> "sentence"]
        ELSE IF 10 * last_space > 8 * max_length
        THEN [chunk |-> Strip(SubSeq(remaining_content, 1, last_space)),
              remaining |-> Strip(SliceFrom(remaining_content, last_space)),
              rule |-> "word"]
        ELSE [chunk |-> Strip(SubSeq(remaining_content, 1, max_length)),
              remaining |-> SliceFrom(remaining_content, max_length),
              rule |-> "hard"]

\* One pass of the loop on content longer than the limit: the chunk that is
\* appended, the content that remains, and the break rule that was taken.
\* `x > max_length * 0.7` is compared in tenths.
BreakContent(remaining_content, max_length) ==
    LET chunk == SubSeq(remaining_content, 1, max_length)
        last_sentence == MaxOf({RFindBeforeSpace(chunk, "."),
                                RFindBeforeSpace(chunk, "!"),
                                RFindBeforeSpace(chunk, "?"),
                                RFindChar(chunk, "\n")})
        last_space == RFindChar(chunk, " ")
    IN  IF 10 * last_sentence > 7 * max_length
        THEN [chunk |-> Strip(SubSeq(remaining_content, 1, last_sentence + 1)),
              remaining |-> Strip(SliceFrom(remaining_content, last_sentence + 1)),
              rule |-> "sentence"]
        ELSE IF 10 * last_space > 8 * max_length
        THEN [chunk |-> Strip(SubSeq(remaining_content, 1, last_space)),
              remaining |-> Strip(SliceFrom(remaining_content, last_space)),
              rule |-> "word"]
        ELSE [chunk |-> Strip(chunk),
              remaining |-> SliceFrom(remaining_content, max_length),
              rule |-> "hard"]

\* `while remaining_content:` -- the chunks in order, each with the rule
\* that made it ("last" for the rest that fits).
RECURSIVE SplitLoop(_, _)
SplitLoop(remaining_content, max_length) ==
    IF remaining_content = <<>> THEN <<>>
    ELSE IF Len(remaining_content) <= max_length
    THEN <<[text |-> Strip(remaining_content), rule |-> "last"]>>
    ELSE LET pass == BreakContent(remaining_content, max_length)
         IN  <<[text |-> pass.chunk, rule |-> pass.rule]>>
                 \o SplitLoop(pass.remaining, max_length)

\* SelectSeq with the test written out: [chunk for chunk in chunks if chunk].
RECURSIVE NonEmptyChunks(_)
NonEmptyChunks(chunks) ==
    IF chunks = <<>> THEN <<>>
    ELSE IF Head(chunks).text = <<>> THEN NonEmptyChunks(Tail(chunks))
    ELSE <<Head(chunks)>> \o NonEmptyChunks(Tail(chunks))

\* NotionUtils.split_long_content(content, max_length).
split_long_content(content, max_length) ==
    IF Len(content) <= max_length
    THEN <<[text |-> content, rule |-> "whole"]>>
    ELSE NonEmptyChunks(SplitLoop(content, max_length))

\* The loop of notion_add_multiple_todos: the same passes, but the rest
\* that fits is appended as it is (`chunks.append(remaining)`).
RECURSIVE SplitTodoItem(_, _)
SplitTodoItem(remaining, MAX_BLOCK_LENGTH) ==
    IF remaining = <<>> THEN <<>>
    ELSE IF Len(remaining) <= MAX_BLOCK_LENGTH
    THEN <<[text |-> remaining, rule |-> "last"]>>
    ELSE LET pass == BreakContent(remaining, MAX_BLOCK_LENGTH)
         IN  <<[text |-> pass.chunk, rule |-> pass.rule]>>
                 \o SplitTodoItem(pass.remaining, MAX_BLOCK_LENGTH)

\* The block texts a notion_add_* tool makes of one content (one item, for
\* notion_add_multiple_todos): one block for content within
\* MAX_BLOCK_LENGTH, else the chunks of its loop, empty ones included.
ContentBlocks(tool, content, MAX_BLOCK_LENGTH) ==
    IF tool = "notion_add_multiple_todos"
    THEN IF Len(content) > MAX_BLOCK_LENGTH
         THEN SplitTodoItem(content, MAX_BLOCK_LENGTH)
         ELSE <<[text |-> Strip(content), rule |-> "whole"]>>
    ELSE IF Len(content) <= MAX_BLOCK_LENGTH
         THEN <<[text |-> content, rule |-> "whole"]>>
         ELSE SplitLoop(content, MAX_BLOCK_LENGTH)

\* A pattern written three times: content of several chunks.
Thrice(pattern) == pattern \o pattern \o pattern

\* The contents that are split.
SplitContents ==
    UNION {[1..n -> SplitAlphabet] : n \in 0..MaxContentLen}
        \cup {Thrice(pattern) : pattern \in [1..MaxPatternLen -> SplitAlphabet]}

\* The limits they are split at.
SplitLengths == {MaxSplitLength}

\* A process that is about to split one content at one limit.
SplitInit ==
    /\ max_function_calls = 0
    /\ user_info = "profile"
    /\ chat_history = <<>>
    /\ summary = {}
    /\ vector_db = {}
    /\ pc = "idle"
    /\ user_message = <<>>
    /\ previous_summary = {}
    /\ function_call_result_section = EmptySection
    /\ function_call_state = NoneVal
    /\ chat_state = "thinking"
    /\ function_call_count = 0
    /\ function_name = Unbound
    /\ function_args = Unbound
    /\ function_call_result = NoResult
    /\ system_prompt = NoPrompt
    /\ assistant_response = NoneVal
    /\ result = NoReturn
    /\ turns = 0
    /\ llm_calls = 0
    /\ fallback_calls = 0
    /\ dispatches = 0
    /\ llm_response = NoneVal
    /\ fallback_text = NoneVal
    /\ effects = NoEffects
    /\ error_cause = NoneVal
    /\ history0 = <<>>
    /\ summary0 = {}
    /\ vector_db0 = {}
    /\ NoToolCall
    /\ NoExt
    /\ split_content \in SplitContents
    /\ split_max_length \in SplitLengths
    /\ split_chunks = <<>>
    /\ tool_blocks = NoBlocks

\* The content is split, by split_long_content and by each tool's loop.
SplitLongContent ==
    /\ split_chunks = <<>>
    /\ tool_blocks = NoBlocks
    /\ split_chunks' = split_long_content(split_content, split_max_length)
    /\ tool_blocks' = [tool \in SplitterTools |->
                          ContentBlocks(tool, split_content, split_max_length)]
    /\ UNCHANGED <<chat_vars, pc, mcp_vars, capture_vars, clock, assemble_log,
                   graph_vars, manager_vars, split_content, split_max_length>>

SplitNext == SplitLongContent

SplitSpec == SplitInit /\ [][SplitNext]_vars

\* ------------------------------------------------------------------- claims

\* C1: in every reachable state of a turn, and when the turn returns, the
\* number of tool dispatches (function_call_count, and the calls of
\* execute_function_call actually made) is at most max_function_calls.
C1_CountWithinLimit ==
    /\ function_call_count <= max_function_calls
    /\ dispatches <= function_call_count

\* A turn that has returned after using the whole budget.
C1_Witness ==
    /\ pc = "returned"
    /\ max_function_calls > 0
    /\ dispatches = max_function_calls
    /\ function_call_count = max_function_calls

\* C2: every turn terminates when each LLM call and each tool call returns
\* or raises: a turn makes at most max_function_calls + 1 tool-enabled
\* completions and at most one fallback completion, and a running turn
\* reaches its return.
C2_TurnTerminates ==
    /\ [](llm_calls <= max_function_calls + 1 /\ fallback_calls <= 1)
    /\ (pc = "llm" ~> pc = "returned")

\* A turn that returned after max_function_calls + 1 tool-enabled completions
\* and the fallback completion.
C2_Witness ==
    /\ pc = "returned"
    /\ max_function_calls > 0
    /\ llm_calls = max_function_calls + 1
    /\ fallback_calls = 1

\* C3: when the tool-enabled completion raises, chat() returns an error and
\* nothing is persisted for the turn: history, summary and vector index are
\* what they were when the turn started, and no persistence call was made.
C3_LLMFailureNotPersisted ==
    (pc = "returned" /\ llm_response = "raised") =>
        /\ result.kind = "error"
        /\ chat_history = history0
        /\ summary = summary0
        /\ vector_db = vector_db0
        /\ effects = NoEffects

\* The completion raised after a tool had been dispatched in the turn.
C3_Witness ==
    /\ pc = "returned"
    /\ llm_response = "raised"
    /\ error_cause = "llm"
    /\ dispatches > 0

\* C4: a turn that ends with an error result leaves the session memory as
\* it was when the turn started (no pair appended, summary unchanged), and a
\* pair is persisted only by a turn that returns its assistant_response.
C4_ErrorLeavesMemoryUntouched ==
    pc = "returned" =>
        /\ (result.kind = "error" => chat_history = history0 /\ summary = summary0)
        /\ (effects.appended = 1 => result.kind = "response")

\* C5: no tool-level failure (unknown name, arguments that do not parse or do
\* not match, a failing executor) ends the turn with an error; only a failure
\* of the LLM call is terminal for the turn.
C5_ToolFailuresAbsorbed ==
    (pc = "returned" /\ result.kind = "error") =>
        error_cause \notin { "json.loads", "render" }

\* C6: after a tool dispatch that returned a failure, the context built for
\* the next LLM invocation contains the rendering of that failure with its
\* detail, whatever function_call_count and max_function_calls are.
C6_FailureDetailInNextContext ==
    (pc = "llm" /\ function_call_state = Failed) =>
        /\ system_prompt.function_call_result_section.kind = "attempted"
        /\ system_prompt.function_call_result_section.outcome = Failed
        /\ system_prompt.function_call_result_section.result = function_call_result

\* The step in which the tool-enabled completion answers with a function call.
FunctionCallAnswered ==
    /\ pc = "llm"
    /\ llm_calls' = llm_calls + 1
    /\ llm_response' = "function_call"

C8_FindThenUpdate ==
    /\ []((/\ pc = "llm"
           /\ user_message = MsgFindUpdate
           /\ function_call_count = 1
           /\ function_name = "notion_search_content"
           /\ function_call_state = Success) => chat_state = "thinking")
    /\ [][(/\ FunctionCallAnswered
           /\ user_message = MsgFindUpdate
           /\ max_function_calls >= 2
           /\ function_call_count = 1
           /\ function_name = "notion_search_content"
           /\ function_call_state = Success)
          => /\ function_call_count' = 2
             /\ fallback_calls' = 0]_vars

\* C9: the fallback completion is made at most once in a turn; when it is
\* made the turn is over in that step (no further completion, no dispatch),
\* and the text it returned is the turn's assistant_response and the text a
\* turn that returns a response returns.
C9_FallbackOnce ==
    /\ fallback_calls <= 1
    /\ fallback_calls = 1 =>
        /\ pc = "returned"
        /\ dispatches <= function_call_count
        /\ fallback_text # NoneVal => assistant_response = fallback_text
        /\ result.kind = "response" => result.text = fallback_text

\* max_function_calls = 1: one dispatch, then a second tool request, which
\* the fallback completion answers.
C9_Witness ==
    /\ pc = "returned"
    /\ max_function_calls = 1
    /\ function_call_count = 1
    /\ dispatches = 1
    /\ llm_calls = 2
    /\ fallback_calls = 1
    /\ result = [kind |-> "response", text |-> fallback_text]

\* C10: every turn that returns a response, from the tool-enabled completion
\* or from the fallback completion, has appended the pair to the history, run
\* the summarization check and updated the vector index.
C10_AllSideEffects ==
    (pc = "returned" /\ result.kind = "response") =>
        effects = [appended |-> 1, summary_checks |-> 1, index_updates |-> 1]

\* Whether the turn got as far as notifying the vector index: the response
\* was produced and the calls before update_vector_db returned.
IndexNotified ==
    /\ pc = "returned"
    /\ effects.appended = 1
    /\ llm_response = "content" => effects.summary_checks = 1

\* C11: a failure of the vector index while it is notified of the new turn is
\* not propagated: a turn that got as far as the notification returns the
\* assistant_response it produced, not an error.
C11_IndexFailureNotPropagated ==
    IndexNotified => result = [kind |-> "response", text |-> assistant_response]

\* C12: a turn whose first completion is plain text dispatches no tool,
\* appends exactly one (user_message, assistant_response) pair to the history
\* and returns that text.  Stated for the turns in which the history manager
\* took the pair and ran its summarization check.
C12_PlainTextTurn ==
    (/\ pc = "returned"
     /\ llm_calls = 1
     /\ llm_response = "content"
     /\ effects.summary_checks = 1) =>
        /\ function_call_count = 0
        /\ dispatches = 0
        /\ effects.appended = 1
        /\ chat_history = Append(history0, MsgPair(user_message, assistant_response))
        /\ result = [kind |-> "response", text |-> assistant_response]

\* The values json.loads hands to execute_function_call.
ParsedArguments ==
    { JsonLoads(arguments).value :
        arguments \in { a \in ArgumentStrings : ~JsonLoads(a).raised } }

\* C13: execute_function_call never raises: for every tool name and every
\* argument value it returns a (state, result) pair, also when the tool's
\* method raises, and for a name that is not a registered tool the state is
\* "Function call failed."; so is the outcome chat() holds after a dispatch.
C13_DispatchNeverRaises ==
    /\ \A name \in RequestedTools, args \in ParsedArguments :
         \A done \in Outcomes(name, args) :
            /\ done.state \in { Success, Failed }
            /\ name \notin RegisteredTools =>
                 /\ done.state = Failed
                 /\ done.result.detail = "Unknown function"
    /\ (pc = "llm" /\ dispatches > 0) =>
         /\ function_call_state \in { Success, Failed }
         /\ function_name \notin RegisteredTools => function_call_state = Failed

\* An unregistered tool was requested and dispatched, and the loop went on
\* with the failure.
C13_Witness ==
    /\ pc = "llm"
    /\ dispatches = 1
    /\ function_name = "notion_delete_page"
    /\ function_call_state = Failed
    /\ function_call_result.detail = "Unknown function"

\* A step of a running turn whose function_call_count has reached the limit.
StepAtLimit ==
    /\ pc = "llm"
    /\ max_function_calls > 0
    /\ function_call_count = max_function_calls

\* C14 as stated: once function_call_count equals max_function_calls no
\* tool is dispatched any more and a turn that ends with a response ends
\* through the fallback completion.
C14_OnlyFallbackAtLimit ==
    [][StepAtLimit =>
         /\ dispatches' = dispatches
         /\ function_call_count' = function_call_count
         /\ result'.kind = "response" => fallback_calls' = fallback_calls + 1]_vars

\* C14 as amended: once function_call_count equals max_function_calls no
\* tool is dispatched any more and the next completion ends the turn: with
\* its own text when it answers in text, through the fallback completion,
\* made once, when it asks for a tool, with an error when a call raises, or
\* with the warning when it holds neither.
C14_NoDispatchAtLimit ==
    [][StepAtLimit =>
         /\ dispatches' = dispatches
         /\ function_call_count' = function_call_count
         /\ pc' = "returned"
         /\ fallback_calls' = IF llm_response' = "function_call"
                              THEN fallback_calls + 1 ELSE fallback_calls
         /\ (llm_response' = "content" /\ result'.kind = "response")
              => result'.text = assistant_response'
         /\ (llm_response' = "function_call" /\ result'.kind = "response")
              => result'.text = fallback_text']_vars

\* A turn that used its whole budget and then ended with the text of the
\* tool-enabled completion, without a fallback completion.
C14_Witness ==
    /\ pc = "returned"
    /\ max_function_calls > 0
    /\ function_call_count = max_function_calls
    /\ llm_response = "content"
    /\ fallback_calls = 0
    /\ result.kind = "response"

C16_LastCallInSection ==
    (pc = "llm" /\ dispatches > 0) =>
        /\ system_prompt.function_call_result_section.name = function_name
        /\ system_prompt.function_call_result_section.args = function_args
        /\ system_prompt.function_call_result_section.outcome = function_call_state

\* C17 as stated: on the first completion of every turn the section passed
\* to the system prompt is empty, whatever max_function_calls is.
C17_FirstSectionEmpty ==
    (pc = "llm" /\ llm_calls = 0) =>
        system_prompt.function_call_result_section = EmptySection

\* C17 as amended: on the first completion of a turn the section is empty
\* when max_function_calls is positive, and is the instruction to conclude
\* when max_function_calls is 0.
C17_FirstSectionEmptyUnlessNoBudget ==
    (pc = "llm" /\ llm_calls = 0) =>
        /\ function_call_count = 0
        /\ function_call_state = NoneVal
        /\ system_prompt.function_call_result_section =
             IF max_function_calls = 0 THEN LimitSection ELSE EmptySection

\* The first completion of a turn with a budget of one call.
C17_Witness ==
    /\ pc = "llm"
    /\ llm_calls = 0
    /\ max_function_calls = 1
    /\ system_prompt.function_call_result_section = EmptySection

\* C18: the chaining check yields a decision for every tool name and every
\* message, and continuation is not forced (is_chaining_task is false, no
\* guidance is given) whenever no keyword pattern matches: no keyword at all
\* in the message, or only keywords of a list that is not tested for the tool.
C18_ChainingTotal ==
    pc = "checked" =>
        LET guidance == function_call_result_section.guidance
            searched == function_name = "notion_search_content"
            read == function_name = "notion_read_page"
            created == function_name = "notion_create_page"
        IN  /\ chat_state \in { "thinking", "finished" }
            /\ (chat_state = "thinking") <=> (guidance # "")
            /\ ~AnyKeywordIn(AllKeywords, user_message) => guidance = ""
            /\ (/\ ~AnyKeywordIn(MultiStepPatterns, user_message)
                /\ searched => ~AnyKeywordIn(ContentAdditionKeywords \cup ReadAndAddKeywords, user_message)
                /\ read => ~AnyKeywordIn(PageUpdateKeywords, user_message)
                /\ created => ~AnyKeywordIn(NewPageContentKeywords, user_message))
               => guidance = ""

\* The check ran on a message that holds a keyword ("update"), after a tool
\* for which that keyword is not tested, and did not force continuation.
C18_Witness ==
    /\ pc = "checked"
    /\ function_name = "notion_search_content"
    /\ user_message = MsgFindUpdate
    /\ AnyKeywordIn(AllKeywords, user_message)
    /\ function_call_result_section.guidance = ""

\* C19: a completion or a tool call that is never answered does not block the
\* turn: the tool call times out into a failed outcome with which the loop
\* goes on, the completion times out into the error chat() returns.
C19_UnansweredCallsTimeOut ==
    /\ llm_response = "never answered" =>
         /\ pc = "returned"
         /\ result.kind = "error"
    /\ function_call_state \in { NoneVal, Success, Failed }
    /\ pc # "blocked"

\* C20: every failure of a tool on the server (unknown tool name, Notion API
\* error, exception in the tool method) comes back from call_tool_sync as
\* ("Function call failed.", message), never as "Function call successful.".
C20_ServerFailuresComeBackFailed ==
    (pc = "done" /\ tool_outcome = "failed") => tool_result.state = Failed

\* C21: turns that run concurrently on different sessions do not interfere:
\* the tool outcome a session gets is the output of its own call, whole and
\* with nothing of the other session's in it, under every interleaving.
C21_SessionsDoNotInterfere ==
    \A s \in Sessions :
        capture_result[s].state = Success => capture_result[s].text = OwnOutput(s)

\* C26: whenever no stdout-capturing tool call is running (each has returned,
\* on success or on failure, or has not begun), sys.stdout is the stream it
\* was before the calls, and the result of every call that succeeded holds
\* only lines its own operation printed.
C26_StdoutRestoredAndOwnOutput ==
    (\A s \in Sessions : capture_pc[s] \in { "ready", "returned" })
        => /\ sys_stdout = "console"
           /\ \A s \in Sessions :
                capture_result[s].state = Success
                    => \A i \in 1..Len(capture_result[s].text) :
                          capture_result[s].text[i] = s

C24_FailedLLMCallNotPersisted ==
    (pc = "returned" /\ error_cause = "llm")
        => /\ result.kind = "error"
           /\ effects = NoEffects
           /\ chat_history = history0
           /\ summary = summary0
           /\ vector_db = vector_db0

\* C25: in the LangGraph chatbot the assistant text of every pair that
\* _finalize_response appends is the text of an AI message of the turn (the
\* LLM's final message or the fallback completion); no pair is appended for
\* a turn that produced neither.  Stated for the turns whose agent steps set
\* no error_message (those are the turns of C24).
C25_PersistedTextWasProduced ==
    (pc = "returned" /\ Len(messages) > 0 /\ effects.appended = 1
        /\ error_cause = NoneVal)
        => chat_history[Len(chat_history)].assistant
              \in { messages[i].content : i \in 2..Len(messages) }

\* C27: initialize_notion_with_fallback tries stdio only after HTTP failed;
\* on a fresh manager it returns True exactly when a "notion" transport is
\* registered afterwards; after it returned False a call of call_tool_sync
\* on "notion" returns a failure.
C27_FallbackRegistersWhatItReports ==
    init_returned # NoneVal
        => /\ init_trace[1].transport = "http"
           /\ Len(init_trace) = 2
                => (~init_trace[1].ok /\ init_trace[2].transport = "stdio")
           /\ init_returned = "True" <=> "notion" \in http_clients \cup sessions
           /\ (init_returned = "False" /\ pc = "done")
                => tool_result.state = Failed

\* C28: every context built for an LLM invocation of a turn holds the summary
\* and the history read when the turn started, and between two invocations
\* of a turn the user info in the context changes only after a successful
\* add_user_info_to_database.
C28_ContextKeepsTurnMemory ==
    [][ pc' = "llm"
          => /\ system_prompt'.chat_summary = summary0'
             /\ system_prompt'.chat_history = history0'
             /\ (pc = "llm" /\ system_prompt'.user_info # system_prompt.user_info)
                  => /\ function_name' = "add_user_info_to_database"
                     /\ function_call_state' = Success ]_vars

\* A second context of a turn was built after add_user_info_to_database
\* succeeded, and holds the refreshed user info.
C28_Witness ==
    /\ pc = "llm"
    /\ llm_calls >= 1
    /\ function_name = "add_user_info_to_database"
    /\ function_call_state = Success
    /\ system_prompt.user_info # "profile"
    /\ system_prompt.function_call_result_section # EmptySection

\* C29: every request handled by the server is answered with jsonrpc "2.0",
\* the id of the request (1 when it has none) and exactly one of "result" and
\* "error"; "error", with code -32601, exactly when the method is neither
\* tools/list nor tools/call; tools/list answers the four registered tools.
C29_JsonRpcAnswer ==
    pc = "responded"
        => /\ "jsonrpc" \in http_response.data.keys
           /\ http_response.data.jsonrpc = "2.0"
           /\ "id" \in http_response.data.keys
           /\ http_response.data.id =
                IF request_data.id.present THEN request_data.id.value ELSE 1
           /\ Cardinality(http_response.data.keys \cap { "result", "error" }) = 1
           /\ "error" \in http_response.data.keys
                <=> request_data.method \notin { "tools/list", "tools/call" }
           /\ "error" \in http_response.data.keys
                => http_response.data.error.code = -32601
           /\ request_data.method = "tools/list"
                => http_response.data.result.tools = ServerTools

\* C30: every block text the long-content splitters produce -- the chunks of
\* split_long_content(content, max_length) and the blocks of the loops of
\* notion_add_paragraph, notion_add_bullet_point, notion_add_todo and
\* notion_add_multiple_todos -- has at most the limit number of characters,
\* whichever break rule (sentence end, word boundary, hard break) made it.
C30_BlocksWithinLimit ==
    /\ \A i \in 1..Len(split_chunks) :
           Len(split_chunks[i].text) <= split_max_length
    /\ \A tool \in SplitterTools : \A i \in 1..Len(tool_blocks[tool]) :
           Len(tool_blocks[tool][i].text) <= split_max_length

\* Content of more than twice the limit was split into at least three
\* blocks by every splitter, one at a sentence end, one at a word boundary
\* or by a hard break, and one block is as long as the limit allows.
C30_Witness ==
    /\ Len(split_content) > 2 * split_max_length
    /\ Len(split_chunks) >= 3
    /\ \E i \in 1..Len(split_chunks) :
           Len(split_chunks[i].text) = split_max_length
    /\ \A tool \in SplitterTools :
           /\ Len(tool_blocks[tool]) >= 3
           /\ \E i \in 1..Len(tool_blocks[tool]) :
                  tool_blocks[tool][i].rule = "sentence"
           /\ \E i \in 1..Len(tool_blocks[tool]) :
                  tool_blocks[tool][i].rule \in {"word", "hard"}

====
